---- MODULE Spec2Model ----
(***************************************************************************)
(* Model of rtm's vector4d operations (includes/rtm/vector4d.h).           *)
(*                                                                         *)
(* A double is its IEEE-754 binary64 bit pattern, split into the sign bit  *)
(* s, the 11 exponent bits e and the 52 fraction bits as two 26-bit limbs  *)
(* hi and lo (fraction = hi * 2^26 + lo), so that every quantity stays     *)
(* below 2^31.  A mask lane is a bit pattern too (all ones or all zeros),  *)
(* and the SSE intrinsics are modelled on those bit patterns.              *)
(***************************************************************************)
EXTENDS Integers, Naturals, Sequences, FiniteSets, TLC

\* ------------------------------------------------------------------------
\* Bounds of the model
\* ------------------------------------------------------------------------

\* every pivot value contributes the doubles at most MaxUlps ulps away from it
MaxUlps == 1

\* ------------------------------------------------------------------------
\* binary64 bit patterns
\* ------------------------------------------------------------------------

Two25 == 33554432
Two26 == 67108864
Two27 == 134217728
Two30 == 1073741824
Int32Min == (-2147483647) - 1
Int32Max == 2147483647

ExpBias == 1023
ExpMax == 2047

Dbl(s, e, hi, lo) == [s |-> s, e |-> e, hi |-> hi, lo |-> lo]

PosZero == Dbl(0, 0, 0, 0)
NegZero == Dbl(1, 0, 0, 0)
Half == Dbl(0, 1022, 0, 0)
One == Dbl(0, 1023, 0, 0)
PosInf == Dbl(0, 2047, 0, 0)
NegInf == Dbl(1, 2047, 0, 0)
\* the x86 "real indefinite" quiet NaN produced by invalid operations
DefaultNaN == Dbl(1, 2047, Two25, 0)
AllOnes == Dbl(1, 2047, Two26 - 1, Two26 - 1)
AllZeros == Dbl(0, 0, 0, 0)

IsNaN(d) == d.e = ExpMax /\ (d.hi # 0 \/ d.lo # 0)
IsInf(d) == d.e = ExpMax /\ d.hi = 0 /\ d.lo = 0
IsZero(d) == d.e = 0 /\ d.hi = 0 /\ d.lo = 0
IsFinite(d) == d.e < ExpMax

\* a signalling NaN becomes quiet by setting the top fraction bit
Quiet(d) == IF d.hi < Two25 THEN [d EXCEPT !.hi = d.hi + Two25] ELSE d

\* |a| < |b| on the bit patterns (neither is a NaN)
MagLt(a, b) ==
    \/ a.e < b.e
    \/ a.e = b.e /\ a.hi < b.hi
    \/ a.e = b.e /\ a.hi = b.hi /\ a.lo < b.lo

MagEq(a, b) == a.e = b.e /\ a.hi = b.hi /\ a.lo = b.lo

\* IEEE ordered comparisons: false as soon as one operand is a NaN
FpEq(a, b) ==
    /\ ~IsNaN(a) /\ ~IsNaN(b)
    /\ \/ IsZero(a) /\ IsZero(b)
       \/ a = b

FpLt(a, b) ==
    /\ ~IsNaN(a) /\ ~IsNaN(b)
    /\ ~(IsZero(a) /\ IsZero(b))
    /\ IF a.s # b.s THEN a.s = 1
       ELSE IF a.s = 0 THEN MagLt(a, b) ELSE MagLt(b, a)

FpLe(a, b) == FpLt(a, b) \/ FpEq(a, b)
FpGt(a, b) == FpLt(b, a)
FpGe(a, b) == FpLe(b, a)

\* ------------------------------------------------------------------------
\* Bitwise operations on bit patterns
\* ------------------------------------------------------------------------

RECURSIVE BitAnd(_, _)
BitAnd(a, b) ==
    IF a = 0 \/ b = 0 THEN 0
    ELSE (a % 2) * (b % 2) + 2 * BitAnd(a \div 2, b \div 2)

RECURSIVE BitOr(_, _)
BitOr(a, b) ==
    IF a = 0 THEN b
    ELSE IF b = 0 THEN a
    ELSE (IF a % 2 = 1 \/ b % 2 = 1 THEN 1 ELSE 0) + 2 * BitOr(a \div 2, b \div 2)

\* ~a within a field of the given width (mask = 2^width - 1)
BitNot(a, mask) == mask - a

AndBits(a, b) ==
    Dbl(BitAnd(a.s, b.s), BitAnd(a.e, b.e), BitAnd(a.hi, b.hi), BitAnd(a.lo, b.lo))

OrBits(a, b) ==
    Dbl(BitOr(a.s, b.s), BitOr(a.e, b.e), BitOr(a.hi, b.hi), BitOr(a.lo, b.lo))

\* (~a) & b
AndNotBits(a, b) ==
    Dbl(BitAnd(BitNot(a.s, 1), b.s), BitAnd(BitNot(a.e, ExpMax), b.e),
        BitAnd(BitNot(a.hi, Two26 - 1), b.hi), BitAnd(BitNot(a.lo, Two26 - 1), b.lo))

MaskOf(b) == IF b THEN AllOnes ELSE AllZeros

\* ------------------------------------------------------------------------
\* Conversions between binary64 and 32-bit integers
\* ------------------------------------------------------------------------

\* the 53-bit significand as two limbs: high limb with the implicit bit
SigHi(d) == IF d.e = 0 THEN d.hi ELSE Two26 + d.hi

\* position of the highest set bit of n >= 1
RECURSIVE Log2(_)
Log2(n) == IF n <= 1 THEN 0 ELSE 1 + Log2(n \div 2)

\* CVTDQ2PD on one element: exact conversion of a signed 32-bit integer
Int32ToDouble(n) ==
    IF n = 0 THEN PosZero
    ELSE IF n = Int32Min THEN Dbl(1, ExpBias + 31, 0, 0)
    ELSE LET a == IF n < 0 THEN -n ELSE n
             b == Log2(a)
             r == a - 2^b
         IN  Dbl(IF n < 0 THEN 1 ELSE 0, ExpBias + b,
                 IF b >= 26 THEN r \div 2^(b - 26) ELSE r * 2^(26 - b),
                 IF b > 26 THEN (r % 2^(b - 26)) * 2^(52 - b) ELSE 0)

\* integer part of |d| for a finite double with unbiased exponent in -1 .. 30
IntPart(d) ==
    LET sh == 52 - (d.e - ExpBias)
    IN  IF sh >= 26 THEN SigHi(d) \div 2^(sh - 26)
        ELSE SigHi(d) * 2^(26 - sh) + d.lo \div 2^sh

\* parity of the integer part of |d| and the comparison of the discarded
\* fraction with one half (-1 below, 0 tie, 1 above; "exact" when nothing is
\* discarded) of a finite double with unbiased exponent in -1 .. 51
IntSplit(d) ==
    LET sh == 52 - (d.e - ExpBias)
        mh == SigHi(d)
    IN  IF sh >= 26
        THEN LET k == sh - 26
                 remHi == mh % 2^k
                 halfHi == IF k >= 1 THEN 2^(k - 1) ELSE 0
                 halfLo == IF k >= 1 THEN 0 ELSE Two25
             IN  [odd |-> (mh \div 2^k) % 2 = 1,
                  exact |-> remHi = 0 /\ d.lo = 0,
                  cmp |-> IF remHi > halfHi \/ (remHi = halfHi /\ d.lo > halfLo) THEN 1
                          ELSE IF remHi = halfHi /\ d.lo = halfLo THEN 0 ELSE -1]
        ELSE LET rem == d.lo % 2^sh
                 half == 2^(sh - 1)
             IN  [odd |-> (d.lo \div 2^sh) % 2 = 1,
                  exact |-> rem = 0,
                  cmp |-> IF rem > half THEN 1 ELSE IF rem = half THEN 0 ELSE -1]

\* to nearest, ties to even: the magnitude goes up above one half, and at one
\* half when the integer part is odd
NearestIsUp(sp) == sp.cmp = 1 \/ (sp.cmp = 0 /\ sp.odd)

\* the integer of sign s and magnitude ip, one more when up
ToInt32(s, ip, up) ==
    IF up /\ ip = Int32Max THEN Int32Min
    ELSE LET m == IF up THEN ip + 1 ELSE ip
         IN  IF s = 1 THEN -m ELSE m

\* CVTPD2DQ (nearest = TRUE: current rounding mode, round to nearest even) and
\* CVTTPD2DQ (nearest = FALSE: truncation) on one element.  NaN, infinities
\* and values that do not fit yield the integer indefinite 0x80000000.
DoubleToInt32(d, nearest) ==
    IF d.e = ExpMax THEN Int32Min
    ELSE IF d.e - ExpBias >= 31 THEN Int32Min
    ELSE IF d.e - ExpBias < -1 THEN 0
    ELSE ToInt32(d.s, IntPart(d), nearest /\ NearestIsUp(IntSplit(d)))

\* the two 32-bit words of a 64-bit lane, as signed integers
Low32(d) ==
    LET h == d.hi % 64
    IN  IF h >= 32 THEN (h - 64) * Two26 + d.lo ELSE h * Two26 + d.lo

High32(d) ==
    LET m == d.e * 1048576 + d.hi \div 64
    IN  IF d.s = 1 THEN Int32Min + m ELSE m

\* ------------------------------------------------------------------------
\* Rounding to an integral value (ROUNDPD, std::floor, std::ceil)
\* ------------------------------------------------------------------------

\* clear the sh low significand bits (1 <= sh <= 52) and, when away is set,
\* step to the next integral value away from zero
Integral(d, sh, away) ==
    LET mh == SigHi(d)
    IN  IF sh >= 26
        THEN LET k == sh - 26
                 th == (mh \div 2^k) * 2^k
                 nh == IF away THEN th + 2^k ELSE th
             IN  IF nh >= Two27 THEN Dbl(d.s, d.e + 1, 0, 0)
                 ELSE Dbl(d.s, d.e, nh - Two26, 0)
        ELSE LET tl == (d.lo \div 2^sh) * 2^sh
                 nl == IF away THEN tl + 2^sh ELSE tl
             IN  IF nl < Two26 THEN Dbl(d.s, d.e, d.hi, nl)
                 ELSE IF mh + 1 >= Two27 THEN Dbl(d.s, d.e + 1, 0, 0)
                 ELSE Dbl(d.s, d.e, d.hi + 1, 0)

\* whether a value of sign s split as sp rounds away from zero
IsAway(mode, s, sp) ==
    CASE mode = "floor" -> s = 1 /\ ~sp.exact
      [] mode = "ceil" -> s = 0 /\ ~sp.exact
      [] OTHER -> NearestIsUp(sp)

\* mode is "floor", "ceil" or "nearest" (ties to even)
RoundIntegral(d, mode) ==
    IF IsNaN(d) THEN Quiet(d)
    ELSE IF d.e = ExpMax \/ IsZero(d) \/ d.e - ExpBias >= 52 THEN d
    ELSE IF d.e - ExpBias < -1 \/ (d.e - ExpBias = -1 /\ mode # "nearest")
    THEN \* 0 < |d| < 1
         IF (mode = "floor" /\ d.s = 1) \/ (mode = "ceil" /\ d.s = 0)
         THEN Dbl(d.s, ExpBias, 0, 0)
         ELSE Dbl(d.s, 0, 0, 0)
    ELSE IF d.e - ExpBias = -1
    THEN \* 1/2 <= |d| < 1, to nearest: exactly one half goes to zero
         IF d.hi = 0 /\ d.lo = 0 THEN Dbl(d.s, 0, 0, 0) ELSE Dbl(d.s, ExpBias, 0, 0)
    ELSE Integral(d, 52 - (d.e - ExpBias), IsAway(mode, d.s, IntSplit(d)))

\* ------------------------------------------------------------------------
\* Addition and subtraction (ADDPD, SUBPD; round to nearest, ties to even)
\* ------------------------------------------------------------------------

\* The significand with three extra low bits (guard, round, sticky) is a
\* number below 2^57 kept as two limbs [h, l] of 30 bits: value h * 2^30 + l.

\* exponent of the unit of the significand: subnormals share that of e = 1
EffExp(d) == IF d.e = 0 THEN 1 ELSE d.e

Ext(d) ==
    [h |-> SigHi(d) \div 2, l |-> (SigHi(d) % 2) * (Two30 \div 2) + d.lo * 8]

Jam(l, sticky) == IF sticky /\ l % 2 = 0 THEN l + 1 ELSE l

\* shift right by n bits, or-ing every bit shifted out into the lowest bit
ShiftRightJam(x, n) ==
    IF n = 0 THEN x
    ELSE IF n >= 60 THEN [h |-> 0, l |-> IF x.h # 0 \/ x.l # 0 THEN 1 ELSE 0]
    ELSE IF n >= 30
    THEN [h |-> 0, l |-> Jam(x.h \div 2^(n - 30), x.h % 2^(n - 30) # 0 \/ x.l # 0)]
    ELSE [h |-> x.h \div 2^n,
          l |-> Jam((x.h % 2^n) * 2^(30 - n) + x.l \div 2^n, x.l % 2^n # 0)]

ExtAdd(x, y) ==
    [h |-> x.h + y.h + (x.l + y.l) \div Two30, l |-> (x.l + y.l) % Two30]

\* x - y for x >= y
ExtSub(x, y) ==
    IF x.l >= y.l THEN [h |-> x.h - y.h, l |-> x.l - y.l]
    ELSE [h |-> x.h - y.h - 1, l |-> x.l + Two30 - y.l]

ExtLt(x, y) == x.h < y.h \/ (x.h = y.h /\ x.l < y.l)

\* shift left until bit 55 is set or the exponent reaches that of subnormals
RECURSIVE NormLeft(_, _)
NormLeft(x, e) ==
    IF x.h >= Two25 \/ e <= 1 THEN [x |-> x, e |-> e]
    ELSE NormLeft([h |-> x.h * 2 + x.l \div (Two30 \div 2), l |-> (x.l * 2) % Two30], e - 1)

\* the rounded significand nh * 2^26 + nl with exponent e as a double: a
\* subnormal when the implicit bit is clear, one exponent up when the rounding
\* carried out of the significand, an infinity past the largest exponent
PackRounded(s, nh, nl, e) ==
    IF nh >= Two27
    THEN (IF e + 1 >= ExpMax THEN Dbl(s, ExpMax, 0, 0) ELSE Dbl(s, e + 1, 0, nl))
    ELSE IF nh < Two26 THEN Dbl(s, 0, nh, nl)
    ELSE IF e >= ExpMax THEN Dbl(s, ExpMax, 0, 0)
    ELSE Dbl(s, e, nh - Two26, nl)

\* round the significand mh * 2^26 + ml by its three extra bits g: up above
\* one half, and at one half when the significand is odd
PackSplit(s, mh, ml, g, e) ==
    LET up == g > 4 \/ (g = 4 /\ ml % 2 = 1)
    IN  PackRounded(s, IF up /\ ml + 1 = Two26 THEN mh + 1 ELSE mh,
                    IF up THEN (ml + 1) % Two26 ELSE ml, e)

\* round the extended significand x (below 2^56) with exponent e to a double
Pack(s, x, e) == PackSplit(s, x.h * 2 + (x.l \div 8) \div Two26, (x.l \div 8) % Two26, x.l % 8, e)

\* the sum sum of two aligned significands of one sign
AddSum(s, sum, e) ==
    Pack(s, IF sum.h >= Two26 THEN ShiftRightJam(sum, 1) ELSE sum,
         IF sum.h >= Two26 THEN e + 1 ELSE e)

\* a difference shifted left by NormLeft
PackNorm(s, n) == Pack(s, n.x, n.e)

\* significands xa and xb aligned to the exponent e, of signs sa and sb
AddAligned(sa, sb, xa, xb, e) ==
    IF sa = sb THEN AddSum(sa, ExtAdd(xa, xb), e)
    ELSE IF xa = xb THEN PosZero
    ELSE PackNorm(IF ExtLt(xb, xa) THEN sa ELSE sb,
                  NormLeft(IF ExtLt(xb, xa) THEN ExtSub(xa, xb) ELSE ExtSub(xb, xa), e))

\* the operands aligned to the larger exponent e
AddShifted(a, b, e) ==
    AddAligned(a.s, b.s, ShiftRightJam(Ext(a), e - EffExp(a)),
               ShiftRightJam(Ext(b), e - EffExp(b)), e)

\* sum of two finite doubles
AddFinite(a, b) == AddShifted(a, b, IF EffExp(a) >= EffExp(b) THEN EffExp(a) ELSE EffExp(b))

\* x86: a NaN operand is returned quieted, the first operand having priority
AddPd(a, b) ==
    IF IsNaN(a) THEN Quiet(a)
    ELSE IF IsNaN(b) THEN Quiet(b)
    ELSE IF IsInf(a) THEN (IF IsInf(b) /\ a.s # b.s THEN DefaultNaN ELSE a)
    ELSE IF IsInf(b) THEN b
    ELSE AddFinite(a, b)

Negate(d) == [d EXCEPT !.s = 1 - d.s]

SubPd(a, b) ==
    IF IsNaN(a) THEN Quiet(a)
    ELSE IF IsNaN(b) THEN Quiet(b)
    ELSE AddPd(a, Negate(b))

\* ------------------------------------------------------------------------
\* Multiplication, division, square root (MULPD, DIVPD, SQRTSD)
\* ------------------------------------------------------------------------

Two10 == 1024
Two15 == 32768
Two20 == 1048576

\* significand of a nonzero finite double shifted left until its implicit bit
\* is set, the exponent lowered by as much (below 1 for a subnormal)
RECURSIVE NormSig(_, _, _)
NormSig(hi, lo, e) ==
    IF hi >= Two26 THEN [hi |-> hi, lo |-> lo, e |-> e]
    ELSE NormSig(hi * 2 + lo \div Two25, (lo * 2) % Two26, e - 1)

Sig(d) == NormSig(SigHi(d), d.lo, EffExp(d))

\* the 53-bit significand as six digits of 10 bits, lowest first
Digits(g) ==
    <<g.lo % Two10, (g.lo \div Two10) % Two10, g.lo \div Two20 + (g.hi % 16) * 64,
      (g.hi \div 16) % Two10, (g.hi \div 16384) % Two10, g.hi \div 16777216>>

\* sum of the digit products a[i] * b[k - i] that land on digit k
RECURSIVE ColSum(_, _, _, _)
ColSum(a, b, k, i) ==
    IF i > 5 \/ i > k THEN 0
    ELSE (IF k - i <= 5 THEN a[i + 1] * b[k - i + 1] ELSE 0) + ColSum(a, b, k, i + 1)

\* the twelve digits of the product, lowest first
RECURSIVE MulDigits(_, _, _, _)
MulDigits(a, b, k, carry) ==
    IF k > 11 THEN <<>>
    ELSE LET t == ColSum(a, b, k, 0) + carry
         IN  <<t % Two10>> \o MulDigits(a, b, k + 1, t \div Two10)

\* twelve digits of 10 bits as four limbs of 30 bits
Limbs(d) == [j \in 1 .. 4 |-> d[3 * j - 2] + d[3 * j - 1] * Two10 + d[3 * j] * Two20]

\* the 106-bit product of two significands as four limbs of 30 bits
Product(ga, gb) == Limbs(MulDigits(Digits(ga), Digits(gb), 0, 0))

Limb(p, i) == IF i <= 4 THEN p[i] ELSE 0

\* a nonzero four-limb number shifted right by n bits into two limbs, every
\* bit shifted out or-ed into the lowest bit
BigShiftRightJam(p, n) ==
    IF n >= 120 THEN [h |-> 0, l |-> 1]
    ELSE LET q == n \div 30
             r == n % 30
             l0 == Limb(p, q + 1) \div 2^r + (Limb(p, q + 2) % 2^r) * 2^(30 - r)
             h0 == Limb(p, q + 2) \div 2^r + (Limb(p, q + 3) % 2^r) * 2^(30 - r)
             lost == \/ Limb(p, q + 1) % 2^r # 0
                     \/ \E i \in 1 .. q : p[i] # 0
         IN  [h |-> h0, l |-> Jam(l0, lost)]

Xor(s, t) == IF s = t THEN 0 ELSE 1

\* the product p of two significands whose exponents add up to esum
MulProduct(s, p, esum) ==
    LET len == IF p[4] >= Two15 THEN 106 ELSE 105
        e0 == esum - 1128 + len
        e == IF e0 < 1 THEN 1 ELSE e0
    IN  Pack(s, BigShiftRightJam(p, (len - 56) + (e - e0)), e)

MulSig(s, ga, gb) == MulProduct(s, Product(ga, gb), ga.e + gb.e)

\* product of two nonzero finite doubles
MulFinite(a, b) == MulSig(Xor(a.s, b.s), Sig(a), Sig(b))

MulPd(a, b) ==
    IF IsNaN(a) THEN Quiet(a)
    ELSE IF IsNaN(b) THEN Quiet(b)
    ELSE IF IsInf(a) \/ IsInf(b)
    THEN (IF IsZero(a) \/ IsZero(b) THEN DefaultNaN ELSE Dbl(Xor(a.s, b.s), ExpMax, 0, 0))
    ELSE IF IsZero(a) \/ IsZero(b) THEN Dbl(Xor(a.s, b.s), 0, 0, 0)
    ELSE MulFinite(a, b)

\* quotient bits of r / d for d <= r < 2 * d, highest first, until the
\* quotient x has 56 bits; then the sticky bit
RECURSIVE DivBits(_, _, _)
DivBits(r, d, x) ==
    IF x.h >= Two25 THEN [h |-> x.h, l |-> Jam(x.l, r.h # 0 \/ r.l # 0)]
    ELSE LET bit == ~ExtLt(r, d)
             r1 == IF bit THEN ExtSub(r, d) ELSE r
             x2 == ExtAdd(x, x)
         IN  DivBits(ExtAdd(r1, r1), d, [h |-> x2.h, l |-> x2.l + IF bit THEN 1 ELSE 0])

\* the significand as a two-limb number
SigExt(g) == [h |-> g.hi \div 16, l |-> (g.hi % 16) * Two26 + g.lo]

\* quotient of the significands ra and rb whose exponents differ by ediff
DivExt(s, ra, rb, ediff) ==
    LET small == ExtLt(ra, rb)
        e0 == ediff + (IF small THEN 1022 ELSE 1023)
        e == IF e0 < 1 THEN 1 ELSE e0
    IN  Pack(s, ShiftRightJam(DivBits(IF small THEN ExtAdd(ra, ra) ELSE ra, rb,
                                      [h |-> 0, l |-> 0]), e - e0), e)

DivSig(s, ga, gb) == DivExt(s, SigExt(ga), SigExt(gb), ga.e - gb.e)

\* quotient of two nonzero finite doubles
DivFinite(a, b) == DivSig(Xor(a.s, b.s), Sig(a), Sig(b))

DivPd(a, b) ==
    IF IsNaN(a) THEN Quiet(a)
    ELSE IF IsNaN(b) THEN Quiet(b)
    ELSE IF IsInf(a) THEN (IF IsInf(b) THEN DefaultNaN ELSE Dbl(Xor(a.s, b.s), ExpMax, 0, 0))
    ELSE IF IsInf(b) THEN Dbl(Xor(a.s, b.s), 0, 0, 0)
    ELSE IF IsZero(b) THEN (IF IsZero(a) THEN DefaultNaN ELSE Dbl(Xor(a.s, b.s), ExpMax, 0, 0))
    ELSE IF IsZero(a) THEN Dbl(Xor(a.s, b.s), 0, 0, 0)
    ELSE DivFinite(a, b)

\* bits 2i+1, 2i (counted from the top, 56 pairs) of the radicand
\* (mh * 2^26 + ml) * 2^58, mh below 2^28
RadicandPair(mh, ml, i) ==
    IF i < 14 THEN (mh \div 4^(13 - i)) % 4
    ELSE IF i < 27 THEN (ml \div 4^(26 - i)) % 4
    ELSE 0

\* digit-by-digit square root: root x and remainder r before pair i, until
\* the root has 56 bits; then the sticky bit
RECURSIVE SqrtBits(_, _, _, _, _)
SqrtBits(mh, ml, x, r, i) ==
    IF x.h >= Two25 THEN [h |-> x.h, l |-> Jam(x.l, r.h # 0 \/ r.l # 0)]
    ELSE LET r2 == ExtAdd(r, r)
             r4 == ExtAdd(r2, r2)
             rn == [h |-> r4.h, l |-> r4.l + RadicandPair(mh, ml, i)]
             x2 == ExtAdd(x, x)
             x4 == ExtAdd(x2, x2)
             t == [h |-> x4.h, l |-> x4.l + 1]
             bit == ~ExtLt(rn, t)
         IN  SqrtBits(mh, ml, [h |-> x2.h, l |-> x2.l + IF bit THEN 1 ELSE 0],
                      IF bit THEN ExtSub(rn, t) ELSE rn, i + 1)

\* square root of the significand g, doubled when its exponent is odd
SqrtSig(g) ==
    LET odd == (g.e - 1075) % 2 = 1
        mh == IF odd THEN g.hi * 2 + g.lo \div Two25 ELSE g.hi
        ml == IF odd THEN (g.lo * 2) % Two26 ELSE g.lo
        ee == IF odd THEN g.e - 1076 ELSE g.e - 1075
    IN  Pack(0, SqrtBits(mh, ml, [h |-> 0, l |-> 0], [h |-> 0, l |-> 0], 0), ee \div 2 + 1049)

\* square root of a positive finite double
SqrtFinite(a) == SqrtSig(Sig(a))

SqrtPd(a) ==
    IF IsNaN(a) THEN Quiet(a)
    ELSE IF IsZero(a) THEN a
    ELSE IF a.s = 1 THEN DefaultNaN
    ELSE IF IsInf(a) THEN a
    ELSE SqrtFinite(a)

\* ------------------------------------------------------------------------
\* SSE intrinsics on a 128-bit register
\* ------------------------------------------------------------------------

\* A __m128d is a pair <<low, high>> of bit patterns; an __m128i or __m128 is
\* a tuple of four signed 32-bit words, lowest first.

Map2(F(_, _), a, b) == <<F(a[1], b[1]), F(a[2], b[2])>>

CmpGeMask(a, b) == MaskOf(FpGe(a, b))
CmpGtMask(a, b) == MaskOf(FpGt(a, b))
CmpLtMask(a, b) == MaskOf(FpLt(a, b))
CmpLeMask(a, b) == MaskOf(FpLe(a, b))
\* as CmpEqMask, comparing the bit patterns
CmpEqMask_bitwise(a, b) == MaskOf(a = b)

CmpEqMask(a, b) == MaskOf(FpEq(a, b))
\* CMPNEQPD is true for unordered operands
CmpNeqMask(a, b) == MaskOf(~FpEq(a, b))

mm_and_pd(a, b) == Map2(AndBits, a, b)
mm_andnot_pd(a, b) == Map2(AndNotBits, a, b)
mm_or_pd(a, b) == Map2(OrBits, a, b)
\* SHUFPD: bit 0 of imm picks the low lane from a, bit 1 the high lane from b
mm_shuffle_pd(a, b, imm) == <<a[1 + (imm % 2)], b[1 + ((imm \div 2) % 2)]>>
\* ADDSD: the low lanes added, the high lane of a kept
mm_add_sd(a, b) == <<AddPd(a[1], b[1]), a[2]>>
mm_cvtsd_f64(a) == a[1]
\* MOVSD between registers: the low lane of b over the high lane of a
mm_move_sd(a, b) == <<b[1], a[2]>>
\* a double in the low lane, zero above it
mm_set_sd(d) == <<d, PosZero>>
mm_mul_pd(a, b) == Map2(MulPd, a, b)
mm_div_pd(a, b) == Map2(DivPd, a, b)
mm_add_pd(a, b) == Map2(AddPd, a, b)
mm_sub_pd(a, b) == Map2(SubPd, a, b)
mm_cmpge_pd(a, b) == Map2(CmpGeMask, a, b)
mm_cmpgt_pd(a, b) == Map2(CmpGtMask, a, b)
mm_cmplt_pd(a, b) == Map2(CmpLtMask, a, b)
mm_cmple_pd(a, b) == Map2(CmpLeMask, a, b)
mm_cmpeq_pd(a, b) == Map2(CmpEqMask, a, b)
mm_cmpneq_pd(a, b) == Map2(CmpNeqMask, a, b)
mm_set1_pd(d) == <<d, d>>
mm_setzero_pd == <<PosZero, PosZero>>

mm_floor_pd(a) == <<RoundIntegral(a[1], "floor"), RoundIntegral(a[2], "floor")>>
mm_ceil_pd(a) == <<RoundIntegral(a[1], "ceil"), RoundIntegral(a[2], "ceil")>>
\* _MM_FROUND_TO_NEAREST_INT | _MM_FROUND_NO_EXC
mm_round_pd(a) == <<RoundIntegral(a[1], "nearest"), RoundIntegral(a[2], "nearest")>>

\* MAXPD / MINPD on one lane: the first operand only when it compares greater
\* (less); the second operand otherwise, so also when either operand is a
\* NaN and when both are zeros
MaxPd(a, b) == IF FpGt(a, b) THEN a ELSE b
MinPd(a, b) == IF FpLt(a, b) THEN a ELSE b

mm_max_pd(a, b) == <<MaxPd(a[1], b[1]), MaxPd(a[2], b[2])>>
mm_min_pd(a, b) == <<MinPd(a[1], b[1]), MinPd(a[2], b[2])>>

\* BLENDVPD: the sign bit of each mask lane selects b over a
mm_blendv_pd(a, b, mask) ==
    <<IF mask[1].s = 1 THEN b[1] ELSE a[1], IF mask[2].s = 1 THEN b[2] ELSE a[2]>>

\* MOVMSKPD: the two sign bits as a 2-bit integer
mm_movemask_pd(a) == a[1].s + 2 * a[2].s

mm_cvtpd_epi32(a) == <<DoubleToInt32(a[1], TRUE), DoubleToInt32(a[2], TRUE), 0, 0>>
mm_cvttpd_epi32(a) == <<DoubleToInt32(a[1], FALSE), DoubleToInt32(a[2], FALSE), 0, 0>>
mm_cvtepi32_pd(w) == <<Int32ToDouble(w[1]), Int32ToDouble(w[2])>>

\* the bit pattern whose low and high 32-bit words are lo32 and hi32
FromWords(lo32, hi32) ==
    LET ul == IF lo32 < 0 THEN (lo32 + Int32Max) + 1 ELSE lo32
        uh == IF hi32 < 0 THEN (hi32 + Int32Max) + 1 ELSE hi32
    IN  Dbl(IF hi32 < 0 THEN 1 ELSE 0, uh \div 1048576,
            (uh % 1048576) * 64 + (IF lo32 < 0 THEN 32 ELSE 0) + ul \div Two26,
            ul % Two26)

\* reinterpreting casts: _mm_castpd_ps and _mm_castpd_si128, _mm_castps_pd
mm_castpd_ps(a) == <<Low32(a[1]), High32(a[1]), Low32(a[2]), High32(a[2])>>
mm_castpd_si128(a) == mm_castpd_ps(a)
mm_castps_pd(w) == <<FromWords(w[1], w[2]), FromWords(w[3], w[4])>>

\* _mm_shuffle_ps(a, b, _MM_SHUFFLE(z, y, x, w)) with imm = <<z, y, x, w>>:
\* the two low words come from a, the two high words from b
mm_shuffle_ps(a, b, imm) ==
    <<a[imm[4] + 1], a[imm[3] + 1], b[imm[2] + 1], b[imm[1] + 1]>>

\* 0x7FFFFFFFFFFFFFFF in both lanes
abs_mask == <<Dbl(0, 2047, Two26 - 1, Two26 - 1), Dbl(0, 2047, Two26 - 1, Two26 - 1)>>
\* 4503599627370496.0 = 2^52 in both lanes
fractional_limit == mm_set1_pd(Dbl(0, ExpBias + 52, 0, 0))
\* -0.0 in both lanes
sign_mask == <<NegZero, NegZero>>

\* ------------------------------------------------------------------------
\* Build configurations
\* ------------------------------------------------------------------------

\* RTM_AVX_INTRINSICS implies RTM_SSE4_INTRINSICS implies RTM_SSE2_INTRINSICS
Backends == {"scalar", "sse2", "sse4", "avx"}
RTM_SSE2_INTRINSICS(b) == b \in {"sse2", "sse4", "avx"}
RTM_SSE4_INTRINSICS(b) == b \in {"sse4", "avx"}
RTM_AVX_INTRINSICS(b) == b = "avx"

\* a vector4d or mask4d is the tuple <<x, y, z, w>> of its lanes
XY(v) == <<v[1], v[2]>>
ZW(v) == <<v[3], v[4]>>
Vec(xy, zw) == <<xy[1], xy[2], zw[1], zw[2]>>
MapLanes(F(_), v) == <<F(v[1]), F(v[2]), F(v[3]), F(v[4])>>
Map4(F(_, _), a, b) == <<F(a[1], b[1]), F(a[2], b[2]), F(a[3], b[3]), F(a[4], b[4])>>
vector_set(d) == <<d, d, d, d>>
vector_zero == vector_set(PosZero)

\* vector_set(x, y, z, w) (rtm/impl/vector_common.h)
vector_set_xyzw(x, y, z, w) == <<x, y, z, w>>

\* ------------------------------------------------------------------------
\* Loads: a const double* is the array it points to, first element at index 1
\* ------------------------------------------------------------------------

\* float2d, float3d, float4d (rtm/types.h): plain structs of doubles
float2d(x, y) == [x |-> x, y |-> y]
float3d(x, y, z) == [x |-> x, y |-> y, z |-> z]
float4d(x, y, z, w) == [x |-> x, y |-> y, z |-> z, w |-> w]

vector_load(input) == vector_set_xyzw(input[1], input[2], input[3], input[4])

vector_load1(input) == vector_set_xyzw(input[1], PosZero, PosZero, PosZero)

vector_load2(input) == vector_set_xyzw(input[1], input[2], PosZero, PosZero)

\* as vector_load3, the fourth array element read into w
vector_load3_four(input) == vector_set_xyzw(input[1], input[2], input[3], input[4])

vector_load3(input) == vector_set_xyzw(input[1], input[2], input[3], PosZero)

\* vector_load(const float4d* input)
vector_load_float4d(input) == vector_set_xyzw(input.x, input.y, input.z, input.w)

\* vector_load2(const float2d* input)
vector_load2_float2d(input) == vector_set_xyzw(input.x, input.y, PosZero, PosZero)

\* vector_load3(const float3d* input)
vector_load3_float3d(input) == vector_set_xyzw(input.x, input.y, input.z, PosZero)

\* ------------------------------------------------------------------------
\* Lane accessors and stores
\* ------------------------------------------------------------------------

\* rtm_impl::vector4d_vector_get_x::operator double() and its y, z, w kin
vector_get_x(b, input) ==
    IF RTM_SSE2_INTRINSICS(b) THEN mm_cvtsd_f64(XY(input)) ELSE input[1]

vector_get_y(b, input) ==
    IF RTM_SSE2_INTRINSICS(b)
    THEN mm_cvtsd_f64(mm_shuffle_pd(XY(input), XY(input), 1))
    ELSE input[2]

vector_get_z(b, input) ==
    IF RTM_SSE2_INTRINSICS(b) THEN mm_cvtsd_f64(ZW(input)) ELSE input[3]

vector_get_w(b, input) ==
    IF RTM_SSE2_INTRINSICS(b)
    THEN mm_cvtsd_f64(mm_shuffle_pd(ZW(input), ZW(input), 1))
    ELSE input[4]

\* vector_set_x / y / z / w (const vector4d& input, double lane_value)
vector_set_x(b, input, lane_value) ==
    IF RTM_SSE2_INTRINSICS(b)
    THEN Vec(mm_move_sd(XY(input), mm_set_sd(lane_value)), ZW(input))
    ELSE <<lane_value, input[2], input[3], input[4]>>

\* as vector_set_y, the lane moved in as vector_set_x does
vector_set_y_moved(b, input, lane_value) ==
    IF RTM_SSE2_INTRINSICS(b)
    THEN Vec(mm_move_sd(XY(input), mm_set_sd(lane_value)), ZW(input))
    ELSE <<lane_value, input[2], input[3], input[4]>>

vector_set_y(b, input, lane_value) ==
    IF RTM_SSE2_INTRINSICS(b)
    THEN Vec(mm_shuffle_pd(XY(input), mm_set_sd(lane_value), 0), ZW(input))
    ELSE <<input[1], lane_value, input[3], input[4]>>

vector_set_z(b, input, lane_value) ==
    IF RTM_SSE2_INTRINSICS(b)
    THEN Vec(XY(input), mm_move_sd(ZW(input), mm_set_sd(lane_value)))
    ELSE <<input[1], input[2], lane_value, input[4]>>

vector_set_w(b, input, lane_value) ==
    IF RTM_SSE2_INTRINSICS(b)
    THEN Vec(XY(input), mm_shuffle_pd(ZW(input), mm_set_sd(lane_value), 0))
    ELSE <<input[1], input[2], input[3], lane_value>>

\* Memory behind a double* is a sequence of doubles, memory behind a uint8_t*
\* a sequence of bytes; a store returns the memory after the call.

\* vector_store1 / 2 / 3 (const vector4d& input, double* output)
vector_store1(b, input, output) == [output EXCEPT ![1] = vector_get_x(b, input)]

\* as vector_store2, the z lane written too
vector_store2_three(b, input, output) ==
    [output EXCEPT ![1] = vector_get_x(b, input), ![2] = vector_get_y(b, input),
                   ![3] = vector_get_z(b, input)]

vector_store2(b, input, output) ==
    [output EXCEPT ![1] = vector_get_x(b, input), ![2] = vector_get_y(b, input)]

vector_store3(b, input, output) ==
    [output EXCEPT ![1] = vector_get_x(b, input), ![2] = vector_get_y(b, input),
                   ![3] = vector_get_z(b, input)]

sizeof_double == 8

\* the eight bytes of a double in memory, lowest first (little endian)
DoubleBytes(d) ==
    <<d.lo % 256, (d.lo \div 256) % 256, (d.lo \div 65536) % 256,
      d.lo \div 16777216 + (d.hi % 64) * 4, (d.hi \div 64) % 256,
      (d.hi \div 16384) % 256, d.hi \div 4194304 + (d.e % 16) * 16,
      d.e \div 16 + d.s * 128>>

\* the object representation of a vector4d: x, y, z, w in this order, as the
\* struct of four doubles and as the struct of the registers xy and zw
ObjectBytes(v) == DoubleBytes(v[1]) \o DoubleBytes(v[2]) \o DoubleBytes(v[3]) \o DoubleBytes(v[4])

\* std::memcpy: the first n bytes of dest replaced by those of src
memcpy(dest, src, n) == [i \in 1 .. Len(dest) |-> IF i <= n THEN src[i] ELSE dest[i]]

\* vector_store1 / 2 / 3 (const vector4d& input, uint8_t* output)
vector_store1_bytes(input, output) == memcpy(output, ObjectBytes(input), sizeof_double * 1)
vector_store2_bytes(input, output) == memcpy(output, ObjectBytes(input), sizeof_double * 2)
vector_store3_bytes(input, output) == memcpy(output, ObjectBytes(input), sizeof_double * 3)

\* vector_store2(const vector4d& input, float2d* output)
vector_store2_float2d(b, input, output) ==
    [output EXCEPT !.x = vector_get_x(b, input), !.y = vector_get_y(b, input)]

\* vector_store3(const vector4d& input, float3d* output)
vector_store3_float3d(b, input, output) ==
    [output EXCEPT !.x = vector_get_x(b, input), !.y = vector_get_y(b, input),
                   !.z = vector_get_z(b, input)]

\* ------------------------------------------------------------------------
\* Arithmetic, comparisons and selection used by the rounding family
\* ------------------------------------------------------------------------

vector_add(b, lhs, rhs) ==
    IF RTM_SSE2_INTRINSICS(b)
    THEN Vec(mm_add_pd(XY(lhs), XY(rhs)), mm_add_pd(ZW(lhs), ZW(rhs)))
    ELSE Map4(AddPd, lhs, rhs)

vector_sub(b, lhs, rhs) ==
    IF RTM_SSE2_INTRINSICS(b)
    THEN Vec(mm_sub_pd(XY(lhs), XY(rhs)), mm_sub_pd(ZW(lhs), ZW(rhs)))
    ELSE Map4(SubPd, lhs, rhs)

\* as vector_mul, the halves of rhs exchanged
vector_mul_crossed(b, lhs, rhs) ==
    IF RTM_SSE2_INTRINSICS(b)
    THEN Vec(mm_mul_pd(XY(lhs), ZW(rhs)), mm_mul_pd(ZW(lhs), XY(rhs)))
    ELSE <<MulPd(lhs[1], rhs[3]), MulPd(lhs[2], rhs[4]), MulPd(lhs[3], rhs[1]), MulPd(lhs[4], rhs[2])>>

vector_mul(b, lhs, rhs) ==
    IF RTM_SSE2_INTRINSICS(b)
    THEN Vec(mm_mul_pd(XY(lhs), XY(rhs)), mm_mul_pd(ZW(lhs), ZW(rhs)))
    ELSE Map4(MulPd, lhs, rhs)

\* vector_mul(const vector4d& lhs, double rhs)
vector_mul_d(b, lhs, rhs) == vector_mul(b, lhs, vector_set(rhs))

vector_div(b, lhs, rhs) ==
    IF RTM_SSE2_INTRINSICS(b)
    THEN Vec(mm_div_pd(XY(lhs), XY(rhs)), mm_div_pd(ZW(lhs), ZW(rhs)))
    ELSE Map4(DivPd, lhs, rhs)

MinusOne == Negate(One)

vector_neg(b, input) == vector_mul_d(b, input, MinusOne)

vector_reciprocal(b, input) == vector_div(b, vector_set(One), input)

vector_mul_add(b, v0, v1, v2) == vector_add(b, vector_mul(b, v0, v1), v2)

\* vector_mul_add(const vector4d& v0, double s1, const vector4d& v2)
vector_mul_add_d(b, v0, s1, v2) == vector_add(b, vector_mul_d(b, v0, s1), v2)

vector_neg_mul_sub(b, v0, v1, v2) == vector_sub(b, v2, vector_mul(b, v0, v1))

\* vector_neg_mul_sub(const vector4d& v0, double s1, const vector4d& v2)
vector_neg_mul_sub_d(b, v0, s1, v2) == vector_sub(b, v2, vector_mul_d(b, v0, s1))

\* as vector_lerp, interpolating from end to start
vector_lerp_reversed(b, start, end, alpha) ==
    vector_mul_add_d(b, start, alpha, vector_neg_mul_sub_d(b, end, alpha, end))

vector_lerp(b, start, end, alpha) ==
    vector_mul_add_d(b, end, alpha, vector_neg_mul_sub_d(b, start, alpha, start))

\* scalar_sqrt_reciprocal (rtm/scalard.h): 1 / sqrt(input)
scalar_sqrt_reciprocal(input) == DivPd(One, SqrtPd(input))

\* the sum x2 + y2 + z2 of the lane products in the SSE2 path of the dot product
dot3_sum(x2_y2, z2_w2) ==
    LET y2 == mm_shuffle_pd(x2_y2, x2_y2, 1)
        x2y2 == mm_add_sd(x2_y2, y2)
    IN  mm_cvtsd_f64(mm_add_sd(x2y2, z2_w2))

\* rtm_impl::vector4d_vector_dot3::operator double()
vector_dot3(b, lhs, rhs) ==
    IF RTM_SSE2_INTRINSICS(b)
    THEN dot3_sum(mm_mul_pd(XY(lhs), XY(rhs)), mm_mul_pd(ZW(lhs), ZW(rhs)))
    ELSE AddPd(AddPd(MulPd(lhs[1], rhs[1]), MulPd(lhs[2], rhs[2])), MulPd(lhs[3], rhs[3]))

\* as vector_length_squared3, the four lanes summed as vector_length_squared does
vector_length_squared3_four(b, input) ==
    AddPd(vector_dot3(b, input, input), MulPd(input[4], input[4]))

vector_length_squared3(b, input) == vector_dot3(b, input, input)

\* scalar_sqrt (rtm/scalard.h): the square root
scalar_sqrt(input) == SqrtPd(input)

\* rtm_impl::vector4d_vector_length3::operator double()
vector_length3(b, input) == scalar_sqrt(vector_length_squared3(b, input))

\* rtm_impl::vector4d_vector_length_reciprocal3::operator double()
vector_length_reciprocal3(b, input) == scalar_sqrt_reciprocal(vector_length_squared3(b, input))

vector_distance3(b, lhs, rhs) == vector_length3(b, vector_sub(b, lhs, rhs))

\* vector_mul(const vector4d& lhs, const scalard& rhs); a scalard is the low
\* lane of its register, a plain double in the scalar build
vector_mul_s(b, lhs, rhs) ==
    IF RTM_SSE2_INTRINSICS(b)
    THEN LET value == <<rhs, rhs>>
             rhs_xx == mm_shuffle_pd(value, value, 0)
         IN  Vec(mm_mul_pd(XY(lhs), rhs_xx), mm_mul_pd(ZW(lhs), rhs_xx))
    ELSE vector_mul_d(b, lhs, rhs)

\* as normalize3_len_sq, the test written as !(len_sq < threshold)
normalize3_len_sq_not_less(b, input, fallback, threshold, len_sq) ==
    IF ~FpLt(len_sq, threshold)
    THEN vector_mul_s(b, input, scalar_sqrt_reciprocal(len_sq))
    ELSE fallback

\* the body of vector_normalize3 once the squared length len_sq is computed
normalize3_len_sq(b, input, fallback, threshold, len_sq) ==
    IF FpGe(len_sq, threshold)
    THEN vector_mul_s(b, input, scalar_sqrt_reciprocal(len_sq))
    ELSE fallback

\* vector_normalize3(input, fallback, threshold)
vector_normalize3(b, input, fallback, threshold) ==
    normalize3_len_sq(b, input, fallback, threshold, vector_length_squared3(b, input))

\* the factor vector_normalize3(input) multiplies its input by
normalize3_scale(b, input) == scalar_sqrt_reciprocal(vector_length_squared3(b, input))

\* scalar_max, scalar_min (rtm/scalard.h): the larger (smaller) operand, the
\* non-NaN operand when exactly one is a NaN
scalar_max(left, right) ==
    IF IsNaN(left) THEN right
    ELSE IF IsNaN(right) THEN left
    ELSE IF FpGt(left, right) THEN left ELSE right

scalar_min(left, right) ==
    IF IsNaN(left) THEN right
    ELSE IF IsNaN(right) THEN left
    ELSE IF FpLt(left, right) THEN left ELSE right

vector_max(b, lhs, rhs) ==
    IF RTM_SSE2_INTRINSICS(b)
    THEN Vec(mm_max_pd(XY(lhs), XY(rhs)), mm_max_pd(ZW(lhs), ZW(rhs)))
    ELSE <<scalar_max(lhs[1], rhs[1]), scalar_max(lhs[2], rhs[2]),
           scalar_max(lhs[3], rhs[3]), scalar_max(lhs[4], rhs[4])>>

vector_min(b, lhs, rhs) ==
    IF RTM_SSE2_INTRINSICS(b)
    THEN Vec(mm_min_pd(XY(lhs), XY(rhs)), mm_min_pd(ZW(lhs), ZW(rhs)))
    ELSE <<scalar_min(lhs[1], rhs[1]), scalar_min(lhs[2], rhs[2]),
           scalar_min(lhs[3], rhs[3]), scalar_min(lhs[4], rhs[4])>>

\* as vector_clamp, the minimum taken first
vector_clamp_min_first(b, input, min_value, max_value) ==
    vector_max(b, min_value, vector_min(b, max_value, input))

vector_clamp(b, input, min_value, max_value) ==
    vector_min(b, max_value, vector_max(b, min_value, input))

\* rtm_impl::get_mask_value: ~0 for true, 0 for false
get_mask_value(c) == MaskOf(c)

\* rtm_impl::select on one lane of the scalar fallback
select(mask, if_true, if_false) == IF mask # AllZeros THEN if_true ELSE if_false

vector_less_than(b, lhs, rhs) ==
    IF RTM_SSE2_INTRINSICS(b)
    THEN Vec(mm_cmplt_pd(XY(lhs), XY(rhs)), mm_cmplt_pd(ZW(lhs), ZW(rhs)))
    ELSE <<get_mask_value(FpLt(lhs[1], rhs[1])), get_mask_value(FpLt(lhs[2], rhs[2])),
           get_mask_value(FpLt(lhs[3], rhs[3])), get_mask_value(FpLt(lhs[4], rhs[4]))>>

vector_equal(b, lhs, rhs) ==
    IF RTM_SSE2_INTRINSICS(b)
    THEN Vec(mm_cmpeq_pd(XY(lhs), XY(rhs)), mm_cmpeq_pd(ZW(lhs), ZW(rhs)))
    ELSE <<get_mask_value(FpEq(lhs[1], rhs[1])), get_mask_value(FpEq(lhs[2], rhs[2])),
           get_mask_value(FpEq(lhs[3], rhs[3])), get_mask_value(FpEq(lhs[4], rhs[4]))>>

\* as vector_less_equal, with the strict comparison
vector_less_equal_strict(b, lhs, rhs) ==
    IF RTM_SSE2_INTRINSICS(b)
    THEN Vec(mm_cmplt_pd(XY(lhs), XY(rhs)), mm_cmplt_pd(ZW(lhs), ZW(rhs)))
    ELSE <<get_mask_value(FpLt(lhs[1], rhs[1])), get_mask_value(FpLt(lhs[2], rhs[2])),
           get_mask_value(FpLt(lhs[3], rhs[3])), get_mask_value(FpLt(lhs[4], rhs[4]))>>

vector_less_equal(b, lhs, rhs) ==
    IF RTM_SSE2_INTRINSICS(b)
    THEN Vec(mm_cmple_pd(XY(lhs), XY(rhs)), mm_cmple_pd(ZW(lhs), ZW(rhs)))
    ELSE <<get_mask_value(FpLe(lhs[1], rhs[1])), get_mask_value(FpLe(lhs[2], rhs[2])),
           get_mask_value(FpLe(lhs[3], rhs[3])), get_mask_value(FpLe(lhs[4], rhs[4]))>>

vector_greater_than(b, lhs, rhs) ==
    IF RTM_SSE2_INTRINSICS(b)
    THEN Vec(mm_cmpgt_pd(XY(lhs), XY(rhs)), mm_cmpgt_pd(ZW(lhs), ZW(rhs)))
    ELSE <<get_mask_value(FpGt(lhs[1], rhs[1])), get_mask_value(FpGt(lhs[2], rhs[2])),
           get_mask_value(FpGt(lhs[3], rhs[3])), get_mask_value(FpGt(lhs[4], rhs[4]))>>

vector_greater_equal(b, lhs, rhs) ==
    IF RTM_SSE2_INTRINSICS(b)
    THEN Vec(mm_cmpge_pd(XY(lhs), XY(rhs)), mm_cmpge_pd(ZW(lhs), ZW(rhs)))
    ELSE <<get_mask_value(FpGe(lhs[1], rhs[1])), get_mask_value(FpGe(lhs[2], rhs[2])),
           get_mask_value(FpGe(lhs[3], rhs[3])), get_mask_value(FpGe(lhs[4], rhs[4]))>>

\* as vector_all_less_than, the two movemasks or-ed instead of and-ed
vector_all_less_than_or(b, lhs, rhs) ==
    IF RTM_SSE2_INTRINSICS(b)
    THEN LET xy_lt_pd == mm_cmplt_pd(XY(lhs), XY(rhs))
             zw_lt_pd == mm_cmplt_pd(ZW(lhs), ZW(rhs))
         IN  BitOr(mm_movemask_pd(xy_lt_pd), mm_movemask_pd(zw_lt_pd)) = 3
    ELSE FpLt(lhs[1], rhs[1]) /\ FpLt(lhs[2], rhs[2]) /\ FpLt(lhs[3], rhs[3]) /\ FpLt(lhs[4], rhs[4])

vector_all_less_than(b, lhs, rhs) ==
    IF RTM_SSE2_INTRINSICS(b)
    THEN LET xy_lt_pd == mm_cmplt_pd(XY(lhs), XY(rhs))
             zw_lt_pd == mm_cmplt_pd(ZW(lhs), ZW(rhs))
         IN  BitAnd(mm_movemask_pd(xy_lt_pd), mm_movemask_pd(zw_lt_pd)) = 3
    ELSE FpLt(lhs[1], rhs[1]) /\ FpLt(lhs[2], rhs[2]) /\ FpLt(lhs[3], rhs[3]) /\ FpLt(lhs[4], rhs[4])

vector_any_greater_equal(b, lhs, rhs) ==
    IF RTM_SSE2_INTRINSICS(b)
    THEN LET xy_ge_pd == mm_cmpge_pd(XY(lhs), XY(rhs))
             zw_ge_pd == mm_cmpge_pd(ZW(lhs), ZW(rhs))
         IN  BitOr(mm_movemask_pd(xy_ge_pd), mm_movemask_pd(zw_ge_pd)) # 0
    ELSE FpGe(lhs[1], rhs[1]) \/ FpGe(lhs[2], rhs[2]) \/ FpGe(lhs[3], rhs[3]) \/ FpGe(lhs[4], rhs[4])

vector_all_less_than2(b, lhs, rhs) ==
    IF RTM_SSE2_INTRINSICS(b)
    THEN LET xy_lt_pd == mm_cmplt_pd(XY(lhs), XY(rhs))
         IN  mm_movemask_pd(xy_lt_pd) = 3
    ELSE FpLt(lhs[1], rhs[1]) /\ FpLt(lhs[2], rhs[2])

vector_all_less_than3(b, lhs, rhs) ==
    IF RTM_SSE2_INTRINSICS(b)
    THEN LET xy_lt_pd == mm_cmplt_pd(XY(lhs), XY(rhs))
             zw_lt_pd == mm_cmplt_pd(ZW(lhs), ZW(rhs))
         IN  mm_movemask_pd(xy_lt_pd) = 3 /\ BitAnd(mm_movemask_pd(zw_lt_pd), 1) = 1
    ELSE FpLt(lhs[1], rhs[1]) /\ FpLt(lhs[2], rhs[2]) /\ FpLt(lhs[3], rhs[3])

vector_any_less_than(b, lhs, rhs) ==
    IF RTM_SSE2_INTRINSICS(b)
    THEN LET xy_lt_pd == mm_cmplt_pd(XY(lhs), XY(rhs))
             zw_lt_pd == mm_cmplt_pd(ZW(lhs), ZW(rhs))
         IN  BitOr(mm_movemask_pd(xy_lt_pd), mm_movemask_pd(zw_lt_pd)) # 0
    ELSE FpLt(lhs[1], rhs[1]) \/ FpLt(lhs[2], rhs[2]) \/ FpLt(lhs[3], rhs[3]) \/ FpLt(lhs[4], rhs[4])

vector_any_less_than2(b, lhs, rhs) ==
    IF RTM_SSE2_INTRINSICS(b)
    THEN LET xy_lt_pd == mm_cmplt_pd(XY(lhs), XY(rhs))
         IN  mm_movemask_pd(xy_lt_pd) # 0
    ELSE FpLt(lhs[1], rhs[1]) \/ FpLt(lhs[2], rhs[2])

\* as vector_any_less_than3, the w lane of the zw register counted too
vector_any_less_than3_w(b, lhs, rhs) ==
    IF RTM_SSE2_INTRINSICS(b)
    THEN LET xy_lt_pd == mm_cmplt_pd(XY(lhs), XY(rhs))
             zw_lt_pd == mm_cmplt_pd(ZW(lhs), ZW(rhs))
         IN  mm_movemask_pd(xy_lt_pd) # 0 \/ mm_movemask_pd(zw_lt_pd) # 0
    ELSE FpLt(lhs[1], rhs[1]) \/ FpLt(lhs[2], rhs[2]) \/ FpLt(lhs[3], rhs[3])

vector_any_less_than3(b, lhs, rhs) ==
    IF RTM_SSE2_INTRINSICS(b)
    THEN LET xy_lt_pd == mm_cmplt_pd(XY(lhs), XY(rhs))
             zw_lt_pd == mm_cmplt_pd(ZW(lhs), ZW(rhs))
         IN  mm_movemask_pd(xy_lt_pd) # 0 \/ BitAnd(mm_movemask_pd(zw_lt_pd), 1) # 0
    ELSE FpLt(lhs[1], rhs[1]) \/ FpLt(lhs[2], rhs[2]) \/ FpLt(lhs[3], rhs[3])

vector_all_less_equal(b, lhs, rhs) ==
    IF RTM_SSE2_INTRINSICS(b)
    THEN LET xy_le_pd == mm_cmple_pd(XY(lhs), XY(rhs))
             zw_le_pd == mm_cmple_pd(ZW(lhs), ZW(rhs))
         IN  BitAnd(mm_movemask_pd(xy_le_pd), mm_movemask_pd(zw_le_pd)) = 3
    ELSE FpLe(lhs[1], rhs[1]) /\ FpLe(lhs[2], rhs[2]) /\ FpLe(lhs[3], rhs[3]) /\ FpLe(lhs[4], rhs[4])

vector_all_less_equal2(b, lhs, rhs) ==
    IF RTM_SSE2_INTRINSICS(b)
    THEN LET xy_le_pd == mm_cmple_pd(XY(lhs), XY(rhs))
         IN  mm_movemask_pd(xy_le_pd) = 3
    ELSE FpLe(lhs[1], rhs[1]) /\ FpLe(lhs[2], rhs[2])

vector_all_less_equal3(b, lhs, rhs) ==
    IF RTM_SSE2_INTRINSICS(b)
    THEN LET xy_le_pd == mm_cmple_pd(XY(lhs), XY(rhs))
             zw_le_pd == mm_cmple_pd(ZW(lhs), ZW(rhs))
         IN  mm_movemask_pd(xy_le_pd) = 3 /\ BitAnd(mm_movemask_pd(zw_le_pd), 1) # 0
    ELSE FpLe(lhs[1], rhs[1]) /\ FpLe(lhs[2], rhs[2]) /\ FpLe(lhs[3], rhs[3])

vector_any_less_equal(b, lhs, rhs) ==
    IF RTM_SSE2_INTRINSICS(b)
    THEN LET xy_le_pd == mm_cmple_pd(XY(lhs), XY(rhs))
             zw_le_pd == mm_cmple_pd(ZW(lhs), ZW(rhs))
         IN  BitOr(mm_movemask_pd(xy_le_pd), mm_movemask_pd(zw_le_pd)) # 0
    ELSE FpLe(lhs[1], rhs[1]) \/ FpLe(lhs[2], rhs[2]) \/ FpLe(lhs[3], rhs[3]) \/ FpLe(lhs[4], rhs[4])

vector_any_less_equal2(b, lhs, rhs) ==
    IF RTM_SSE2_INTRINSICS(b)
    THEN LET xy_le_pd == mm_cmple_pd(XY(lhs), XY(rhs))
         IN  mm_movemask_pd(xy_le_pd) # 0
    ELSE FpLe(lhs[1], rhs[1]) \/ FpLe(lhs[2], rhs[2])

vector_any_less_equal3(b, lhs, rhs) ==
    IF RTM_SSE2_INTRINSICS(b)
    THEN LET xy_le_pd == mm_cmple_pd(XY(lhs), XY(rhs))
             zw_le_pd == mm_cmple_pd(ZW(lhs), ZW(rhs))
         IN  mm_movemask_pd(xy_le_pd) # 0 \/ BitAnd(mm_movemask_pd(zw_le_pd), 1) # 0
    ELSE FpLe(lhs[1], rhs[1]) \/ FpLe(lhs[2], rhs[2]) \/ FpLe(lhs[3], rhs[3])

vector_all_greater_than(b, lhs, rhs) ==
    IF RTM_SSE2_INTRINSICS(b)
    THEN LET xy_ge_pd == mm_cmpgt_pd(XY(lhs), XY(rhs))
             zw_ge_pd == mm_cmpgt_pd(ZW(lhs), ZW(rhs))
         IN  BitAnd(mm_movemask_pd(xy_ge_pd), mm_movemask_pd(zw_ge_pd)) = 3
    ELSE FpGt(lhs[1], rhs[1]) /\ FpGt(lhs[2], rhs[2]) /\ FpGt(lhs[3], rhs[3]) /\ FpGt(lhs[4], rhs[4])

vector_all_greater_than2(b, lhs, rhs) ==
    IF RTM_SSE2_INTRINSICS(b)
    THEN LET xy_ge_pd == mm_cmpgt_pd(XY(lhs), XY(rhs))
         IN  mm_movemask_pd(xy_ge_pd) = 3
    ELSE FpGt(lhs[1], rhs[1]) /\ FpGt(lhs[2], rhs[2])

vector_all_greater_than3(b, lhs, rhs) ==
    IF RTM_SSE2_INTRINSICS(b)
    THEN LET xy_ge_pd == mm_cmpgt_pd(XY(lhs), XY(rhs))
             zw_ge_pd == mm_cmpgt_pd(ZW(lhs), ZW(rhs))
         IN  mm_movemask_pd(xy_ge_pd) = 3 /\ BitAnd(mm_movemask_pd(zw_ge_pd), 1) # 0
    ELSE FpGt(lhs[1], rhs[1]) /\ FpGt(lhs[2], rhs[2]) /\ FpGt(lhs[3], rhs[3])

vector_any_greater_than(b, lhs, rhs) ==
    IF RTM_SSE2_INTRINSICS(b)
    THEN LET xy_ge_pd == mm_cmpgt_pd(XY(lhs), XY(rhs))
             zw_ge_pd == mm_cmpgt_pd(ZW(lhs), ZW(rhs))
         IN  BitOr(mm_movemask_pd(xy_ge_pd), mm_movemask_pd(zw_ge_pd)) # 0
    ELSE FpGt(lhs[1], rhs[1]) \/ FpGt(lhs[2], rhs[2]) \/ FpGt(lhs[3], rhs[3]) \/ FpGt(lhs[4], rhs[4])

vector_any_greater_than2(b, lhs, rhs) ==
    IF RTM_SSE2_INTRINSICS(b)
    THEN LET xy_ge_pd == mm_cmpgt_pd(XY(lhs), XY(rhs))
         IN  mm_movemask_pd(xy_ge_pd) # 0
    ELSE FpGt(lhs[1], rhs[1]) \/ FpGt(lhs[2], rhs[2])

vector_any_greater_than3(b, lhs, rhs) ==
    IF RTM_SSE2_INTRINSICS(b)
    THEN LET xy_ge_pd == mm_cmpgt_pd(XY(lhs), XY(rhs))
             zw_ge_pd == mm_cmpgt_pd(ZW(lhs), ZW(rhs))
         IN  mm_movemask_pd(xy_ge_pd) # 0 \/ BitAnd(mm_movemask_pd(zw_ge_pd), 1) # 0
    ELSE FpGt(lhs[1], rhs[1]) \/ FpGt(lhs[2], rhs[2]) \/ FpGt(lhs[3], rhs[3])

vector_all_greater_equal(b, lhs, rhs) ==
    IF RTM_SSE2_INTRINSICS(b)
    THEN LET xy_ge_pd == mm_cmpge_pd(XY(lhs), XY(rhs))
             zw_ge_pd == mm_cmpge_pd(ZW(lhs), ZW(rhs))
         IN  BitAnd(mm_movemask_pd(xy_ge_pd), mm_movemask_pd(zw_ge_pd)) = 3
    ELSE FpGe(lhs[1], rhs[1]) /\ FpGe(lhs[2], rhs[2]) /\ FpGe(lhs[3], rhs[3]) /\ FpGe(lhs[4], rhs[4])

vector_all_greater_equal2(b, lhs, rhs) ==
    IF RTM_SSE2_INTRINSICS(b)
    THEN LET xy_ge_pd == mm_cmpge_pd(XY(lhs), XY(rhs))
         IN  mm_movemask_pd(xy_ge_pd) = 3
    ELSE FpGe(lhs[1], rhs[1]) /\ FpGe(lhs[2], rhs[2])

vector_all_greater_equal3(b, lhs, rhs) ==
    IF RTM_SSE2_INTRINSICS(b)
    THEN LET xy_ge_pd == mm_cmpge_pd(XY(lhs), XY(rhs))
             zw_ge_pd == mm_cmpge_pd(ZW(lhs), ZW(rhs))
         IN  mm_movemask_pd(xy_ge_pd) = 3 /\ BitAnd(mm_movemask_pd(zw_ge_pd), 1) # 0
    ELSE FpGe(lhs[1], rhs[1]) /\ FpGe(lhs[2], rhs[2]) /\ FpGe(lhs[3], rhs[3])

vector_any_greater_equal2(b, lhs, rhs) ==
    IF RTM_SSE2_INTRINSICS(b)
    THEN LET xy_ge_pd == mm_cmpge_pd(XY(lhs), XY(rhs))
         IN  mm_movemask_pd(xy_ge_pd) # 0
    ELSE FpGe(lhs[1], rhs[1]) \/ FpGe(lhs[2], rhs[2])

vector_any_greater_equal3(b, lhs, rhs) ==
    IF RTM_SSE2_INTRINSICS(b)
    THEN LET xy_ge_pd == mm_cmpge_pd(XY(lhs), XY(rhs))
             zw_ge_pd == mm_cmpge_pd(ZW(lhs), ZW(rhs))
         IN  mm_movemask_pd(xy_ge_pd) # 0 \/ BitAnd(mm_movemask_pd(zw_ge_pd), 1) # 0
    ELSE FpGe(lhs[1], rhs[1]) \/ FpGe(lhs[2], rhs[2]) \/ FpGe(lhs[3], rhs[3])

\* as vector_select, true and false operands exchanged in the scalar fallback
\* and in the register formula
vector_select_swapped(b, mask, if_true, if_false) ==
    IF RTM_SSE2_INTRINSICS(b)
    THEN LET xy == mm_or_pd(mm_andnot_pd(XY(mask), XY(if_true)), mm_and_pd(XY(if_false), XY(mask)))
             zw == mm_or_pd(mm_andnot_pd(ZW(mask), ZW(if_true)), mm_and_pd(ZW(if_false), ZW(mask)))
         IN  Vec(xy, zw)
    ELSE <<select(mask[1], if_false[1], if_true[1]), select(mask[2], if_false[2], if_true[2]),
           select(mask[3], if_false[3], if_true[3]), select(mask[4], if_false[4], if_true[4])>>

vector_select(b, mask, if_true, if_false) ==
    IF RTM_SSE2_INTRINSICS(b)
    THEN LET xy == mm_or_pd(mm_andnot_pd(XY(mask), XY(if_false)), mm_and_pd(XY(if_true), XY(mask)))
             zw == mm_or_pd(mm_andnot_pd(ZW(mask), ZW(if_false)), mm_and_pd(ZW(if_true), ZW(mask)))
         IN  Vec(xy, zw)
    ELSE <<select(mask[1], if_true[1], if_false[1]), select(mask[2], if_true[2], if_false[2]),
           select(mask[3], if_true[3], if_false[3]), select(mask[4], if_true[4], if_false[4])>>

\* ------------------------------------------------------------------------
\* vector_ceil and vector_floor
\* ------------------------------------------------------------------------

\* scalar_ceil, scalar_floor, scalar_round_bankers (rtm/scalard.h)
scalar_ceil(d) == RoundIntegral(d, "ceil")
scalar_floor(d) == RoundIntegral(d, "floor")
scalar_round_bankers(d) == RoundIntegral(d, "nearest")

\* larger values that have no fractional part, and infinities, are true
is_input_large(input) ==
    LET abs_input == mm_and_pd(input, abs_mask)
    IN  mm_cmpge_pd(abs_input, fractional_limit)

\* (value != value) is only true for NaN
is_nan(input) == mm_cmpneq_pd(input, input)

\* as use_original_input, the NaN test forgotten
use_original_input_large_only(input) == is_input_large(input)

\* the lanes of one register that are returned as they are
use_original_input(input) == mm_or_pd(is_input_large(input), is_nan(input))

\* convert to a 32-bit integer and back
integer_round_trip(input) == mm_cvtepi32_pd(mm_cvtpd_epi32(input))

\* the 64-bit comparison mask of each lane as a double: ~0 yields -1.0
mask_to_bias(mask) ==
    LET narrowed == mm_castps_pd(mm_shuffle_ps(mm_castpd_ps(mask), mm_castpd_ps(mask), <<2, 0, 2, 0>>))
    IN  mm_cvtepi32_pd(mm_castpd_si128(narrowed))

\* one register (two lanes) of the SSE2 path of vector_ceil
vector_ceil_sse2(input) ==
    LET integer_part == integer_round_trip(input)
        is_positive == mm_cmplt_pd(integer_part, input)
        bias == mask_to_bias(is_positive)
        corrected == mm_sub_pd(integer_part, bias)
        use_original == use_original_input(input)
    IN  mm_or_pd(mm_and_pd(use_original, input), mm_andnot_pd(use_original, corrected))

vector_ceil(b, input) ==
    IF RTM_SSE2_INTRINSICS(b)
    THEN Vec(vector_ceil_sse2(XY(input)), vector_ceil_sse2(ZW(input)))
    ELSE MapLanes(scalar_ceil, input)

\* one register (two lanes) of the SSE2 path of vector_floor
vector_floor_sse2(input) ==
    LET integer_part == integer_round_trip(input)
        is_negative == mm_cmpgt_pd(integer_part, input)
        bias == mask_to_bias(is_negative)
        corrected == mm_add_pd(integer_part, bias)
        use_original == use_original_input(input)
    IN  mm_or_pd(mm_and_pd(use_original, input), mm_andnot_pd(use_original, corrected))

vector_floor(b, input) ==
    IF RTM_SSE4_INTRINSICS(b)
    THEN Vec(mm_floor_pd(XY(input)), mm_floor_pd(ZW(input)))
    ELSE IF RTM_SSE2_INTRINSICS(b)
    THEN Vec(vector_floor_sse2(XY(input)), vector_floor_sse2(ZW(input)))
    ELSE MapLanes(scalar_floor, input)

\* ------------------------------------------------------------------------
\* vector_round_symmetric and vector_round_bankers
\* ------------------------------------------------------------------------

\* the input plus 0.5 carrying the sign bit of the input
biased_input(input) ==
    LET sign == mm_and_pd(input, sign_mask)
        half == mm_set1_pd(Half)
        bias == mm_or_pd(sign, half)
    IN  mm_add_pd(input, bias)

\* one register of the SSE4 path (blendv under AVX, and/andnot/or otherwise)
vector_round_symmetric_sse4(b, input) ==
    LET floored == mm_floor_pd(biased_input(input))
        ceiled == mm_ceil_pd(biased_input(input))
        zero == mm_setzero_pd
        is_positive == mm_cmpge_pd(input, zero)
    IN  IF RTM_AVX_INTRINSICS(b)
        THEN mm_blendv_pd(ceiled, floored, is_positive)
        ELSE mm_or_pd(mm_and_pd(is_positive, floored), mm_andnot_pd(is_positive, ceiled))

\* one register of the SSE2 path: truncation through a 32-bit integer
vector_round_symmetric_sse2(input) ==
    LET use_original == use_original_input(input)
        integer_part == mm_cvtepi32_pd(mm_cvttpd_epi32(biased_input(input)))
    IN  mm_or_pd(mm_and_pd(use_original, input), mm_andnot_pd(use_original, integer_part))

vector_round_symmetric(b, input) ==
    IF RTM_SSE4_INTRINSICS(b)
    THEN Vec(vector_round_symmetric_sse4(b, XY(input)), vector_round_symmetric_sse4(b, ZW(input)))
    ELSE IF RTM_SSE2_INTRINSICS(b)
    THEN Vec(vector_round_symmetric_sse2(XY(input)), vector_round_symmetric_sse2(ZW(input)))
    ELSE LET half == vector_set(Half)
             floored == vector_floor(b, vector_add(b, input, half))
             ceiled == vector_ceil(b, vector_sub(b, input, half))
             is_greater_equal == vector_greater_equal(b, input, vector_zero)
         IN  vector_select(b, is_greater_equal, floored, ceiled)

\* as truncating_offset, the sign of the input not copied
truncating_offset_unsigned(input) == fractional_limit

\* 2^52 carrying the sign bit of the input
truncating_offset(input) ==
    LET sign == mm_and_pd(input, sign_mask)
    IN  mm_or_pd(sign, fractional_limit)

\* as vector_round_bankers_sse2, large inputs not masked out
vector_round_bankers_sse2_unmasked(input) ==
    mm_sub_pd(mm_add_pd(input, truncating_offset(input)), truncating_offset(input))

\* one register of the SSE2 path: add then subtract the same-signed 2^52
vector_round_bankers_sse2(input) ==
    LET integer_part == mm_sub_pd(mm_add_pd(input, truncating_offset(input)), truncating_offset(input))
        large == is_input_large(input)
    IN  mm_or_pd(mm_and_pd(large, input), mm_andnot_pd(large, integer_part))

vector_round_bankers(b, input) ==
    IF RTM_SSE4_INTRINSICS(b)
    THEN Vec(mm_round_pd(XY(input)), mm_round_pd(ZW(input)))
    ELSE IF RTM_SSE2_INTRINSICS(b)
    THEN Vec(vector_round_bankers_sse2(XY(input)), vector_round_bankers_sse2(ZW(input)))
    ELSE MapLanes(scalar_round_bankers, input)

\* ------------------------------------------------------------------------
\* Sign, sign copy and absolute value
\* ------------------------------------------------------------------------

\* as vector_sign, zero compared with the strict comparison
vector_sign_strict(b, input) ==
    LET mask == vector_greater_than(b, input, vector_zero)
    IN  vector_select(b, mask, vector_set(One), vector_set(MinusOne))

vector_sign(b, input) ==
    LET mask == vector_greater_equal(b, input, vector_zero)
    IN  vector_select(b, mask, vector_set(One), vector_set(MinusOne))

\* std::copysign: the magnitude bits of x under the sign bit of y
std_copysign(x, y) == [x EXCEPT !.s = y.s]

\* as vector_copy_sign, the sign bit of the input not cleared
vector_copy_sign_kept(b, input, control_sign) ==
    IF RTM_SSE2_INTRINSICS(b)
    THEN LET sign_bit == mm_set1_pd(NegZero)
             signs_xy == mm_and_pd(sign_bit, XY(control_sign))
             signs_zw == mm_and_pd(sign_bit, ZW(control_sign))
         IN  Vec(mm_or_pd(XY(input), signs_xy), mm_or_pd(ZW(input), signs_zw))
    ELSE Map4(std_copysign, input, input)

vector_copy_sign(b, input, control_sign) ==
    IF RTM_SSE2_INTRINSICS(b)
    THEN LET sign_bit == mm_set1_pd(NegZero)
             signs_xy == mm_and_pd(sign_bit, XY(control_sign))
             signs_zw == mm_and_pd(sign_bit, ZW(control_sign))
             abs_input_xy == mm_andnot_pd(sign_bit, XY(input))
             abs_input_zw == mm_andnot_pd(sign_bit, ZW(input))
             xy == mm_or_pd(abs_input_xy, signs_xy)
             zw == mm_or_pd(abs_input_zw, signs_zw)
         IN  Vec(xy, zw)
    ELSE LET x == vector_get_x(b, input)
             y == vector_get_y(b, input)
             z == vector_get_z(b, input)
             w == vector_get_w(b, input)
             x_sign == vector_get_x(b, control_sign)
             y_sign == vector_get_y(b, control_sign)
             z_sign == vector_get_z(b, control_sign)
             w_sign == vector_get_w(b, control_sign)
         IN  vector_set_xyzw(std_copysign(x, x_sign), std_copysign(y, y_sign),
                             std_copysign(z, z_sign), std_copysign(w, w_sign))

\* ------------------------------------------------------------------------
\* Tangent
\* ------------------------------------------------------------------------

\* vector_sin and vector_cos call scalar_sin and scalar_cos (rtm/scalard.h)
\* on every lane; vector_tan is given the two vectors they return.

\* as vector_tan, the infinity not given the sign of the angle
vector_tan_unsigned(b, angle, sin_, cos_) ==
    LET is_cos_zero == vector_equal(b, cos_, vector_zero)
        quotient == vector_div(b, sin_, cos_)
    IN  vector_select(b, is_cos_zero, vector_set(PosInf), quotient)

vector_tan(b, angle, sin_, cos_) ==
    LET is_cos_zero == vector_equal(b, cos_, vector_zero)
        signed_infinity == vector_copy_sign(b, vector_set(PosInf), angle)
        quotient == vector_div(b, sin_, cos_)
    IN  vector_select(b, is_cos_zero, signed_infinity, quotient)

\* ------------------------------------------------------------------------
\* Absolute value and near equality
\* ------------------------------------------------------------------------

\* scalar_abs (rtm/scalard.h): the magnitude, as std::abs gives it
scalar_abs(d) == [d EXCEPT !.s = 0]

vector_abs(b, input) ==
    IF RTM_SSE2_INTRINSICS(b)
    THEN vector_max(b, vector_sub(b, vector_zero, input), input)
    ELSE MapLanes(scalar_abs, input)

vector_all_near_equal(b, lhs, rhs, threshold) ==
    vector_all_less_equal(b, vector_abs(b, vector_sub(b, lhs, rhs)), vector_set(threshold))

vector_all_near_equal2(b, lhs, rhs, threshold) ==
    vector_all_less_equal2(b, vector_abs(b, vector_sub(b, lhs, rhs)), vector_set(threshold))

\* as vector_all_near_equal3, the w lanes compared too
vector_all_near_equal3_four(b, lhs, rhs, threshold) ==
    vector_all_less_equal(b, vector_abs(b, vector_sub(b, lhs, rhs)), vector_set(threshold))

vector_all_near_equal3(b, lhs, rhs, threshold) ==
    vector_all_less_equal3(b, vector_abs(b, vector_sub(b, lhs, rhs)), vector_set(threshold))

vector_any_near_equal(b, lhs, rhs, threshold) ==
    vector_any_less_equal(b, vector_abs(b, vector_sub(b, lhs, rhs)), vector_set(threshold))

vector_any_near_equal2(b, lhs, rhs, threshold) ==
    vector_any_less_equal2(b, vector_abs(b, vector_sub(b, lhs, rhs)), vector_set(threshold))

vector_any_near_equal3(b, lhs, rhs, threshold) ==
    vector_any_less_equal3(b, vector_abs(b, vector_sub(b, lhs, rhs)), vector_set(threshold))

\* ------------------------------------------------------------------------
\* Mixing
\* ------------------------------------------------------------------------

\* enum class mix4 (rtm/types.h)
mix4 == [x |-> 0, y |-> 1, z |-> 2, w |-> 3, a |-> 4, b |-> 5, c |-> 6, d |-> 7]

\* rtm_impl::is_mix_xyzw (rtm/types.h)
is_mix_xyzw(arg) == arg \in {mix4.x, mix4.y, mix4.z, mix4.w}

\* rtm_impl::vector4d_vector_get_component_static<component>::operator double()
vector_get_component(b, component, input) ==
    LET xyzw == component % 4
    IN  IF xyzw = mix4.x THEN vector_get_x(b, input)
        ELSE IF xyzw = mix4.y THEN vector_get_y(b, input)
        ELSE IF xyzw = mix4.z THEN vector_get_z(b, input)
        ELSE vector_get_w(b, input)

\* one component of vector_mix
mix_component(b, comp, input0, input1) ==
    IF is_mix_xyzw(comp) THEN vector_get_component(b, comp, input0)
    ELSE vector_get_component(b, comp, input1)

\* as vector_mix, every component read from the first input
vector_mix_first(b, comp0, comp1, comp2, comp3, input0, input1) ==
    vector_set_xyzw(vector_get_component(b, comp0, input0), vector_get_component(b, comp1, input0),
                    vector_get_component(b, comp2, input0), vector_get_component(b, comp3, input0))

\* vector_mix<comp0, comp1, comp2, comp3>(input0, input1)
vector_mix(b, comp0, comp1, comp2, comp3, input0, input1) ==
    vector_set_xyzw(mix_component(b, comp0, input0, input1), mix_component(b, comp1, input0, input1),
                    mix_component(b, comp2, input0, input1), mix_component(b, comp3, input0, input1))

vector_dup_x(b, input) == vector_mix(b, mix4.x, mix4.x, mix4.x, mix4.x, input, input)
vector_dup_y(b, input) == vector_mix(b, mix4.y, mix4.y, mix4.y, mix4.y, input, input)
vector_dup_z(b, input) == vector_mix(b, mix4.z, mix4.z, mix4.z, mix4.z, input, input)
vector_dup_w(b, input) == vector_mix(b, mix4.w, mix4.w, mix4.w, mix4.w, input, input)

\* ------------------------------------------------------------------------
\* Input values
\* ------------------------------------------------------------------------

\* magnitudes around which the lane values are taken
Pivots == <<
    Dbl(0, 0, 0, 0),                      \* 0.0
    Dbl(0, 1022, 0, 0),                   \* 0.5
    Dbl(0, 1023, 0, 0),                   \* 1.0
    Dbl(0, 1023, 13421772, 53687091),     \* 1.2
    Dbl(0, 1023, 33554432, 0),            \* 1.5
    Dbl(0, 1023, 53687091, 13421773),     \* 1.8
    Dbl(0, 1024, 16777216, 0),            \* 2.5
    Dbl(0, 1053, 67108863, 65011712),     \* 2^31 - 0.5
    Dbl(0, 1054, 0, 0),                   \* 2^31
    Dbl(0, 1054, 26641136, 0),            \* 3.0e9
    Dbl(0, 1074, 0, 1),                   \* 2^51 + 0.5
    Dbl(0, 1075, 0, 0),                   \* 2^52
    Dbl(0, 1076, 0, 0),                   \* 2^53
    Dbl(0, 2047, 0, 0),                   \* infinity; one ulp above is a signalling NaN
    Dbl(0, 2047, 33554432, 0)             \* quiet NaN
>>

\* the bit pattern k steps above (k > 0) or below (k < 0) the magnitude of d;
\* stepping stays within the 63 magnitude bits
RECURSIVE StepMag(_, _)
StepMag(d, k) ==
    IF k = 0 THEN d
    ELSE IF k > 0
    THEN IF d.lo + 1 < Two26 THEN StepMag([d EXCEPT !.lo = d.lo + 1], k - 1)
         ELSE IF d.hi + 1 < Two26 THEN StepMag([d EXCEPT !.hi = d.hi + 1, !.lo = 0], k - 1)
         ELSE IF d.e < ExpMax THEN StepMag([d EXCEPT !.e = d.e + 1, !.hi = 0, !.lo = 0], k - 1)
         ELSE d
    ELSE IF d.lo > 0 THEN StepMag([d EXCEPT !.lo = d.lo - 1], k + 1)
         ELSE IF d.hi > 0 THEN StepMag([d EXCEPT !.hi = d.hi - 1, !.lo = Two26 - 1], k + 1)
         ELSE IF d.e > 0 THEN StepMag([d EXCEPT !.e = d.e - 1, !.hi = Two26 - 1, !.lo = Two26 - 1], k + 1)
         ELSE d

NumPivots == Len(Pivots)
PerPivot == 2 * (2 * MaxUlps + 1)
NumLaneValues == NumPivots * PerPivot

\* the i-th lane value, i in 0 .. NumLaneValues - 1: pivot, then sign, then step
LaneValue(i) ==
    LET j == i % NumLaneValues
        p == Pivots[(j \div PerPivot) + 1]
        r == j % PerPivot
        m == StepMag(p, (r \div 2) - MaxUlps)
    IN  [m EXCEPT !.s = r % 2]

\* the next double above d in value order (NaN and +infinity stay)
ValueUp(d) ==
    IF IsNaN(d) \/ d = PosInf THEN d
    ELSE IF IsZero(d) THEN Dbl(0, 0, 0, 1)
    ELSE IF d.s = 0 THEN StepMag(d, 1)
    ELSE StepMag(d, -1)

\* lane offsets that put unrelated values side by side in one vector
OffsetY == 7
OffsetZ == 31
OffsetW == 53

InputVector(i) ==
    <<LaneValue(i), LaneValue(i + OffsetY), LaneValue(i + OffsetZ), LaneValue(i + OffsetW)>>

\* the vectors of the documented examples, and one mixing the special values
Examples == {
    \* (1.8, 1.0, -1.8, -1.0)
    <<Dbl(0, 1023, 53687091, 13421773), Dbl(0, 1023, 0, 0),
      Dbl(1, 1023, 53687091, 13421773), Dbl(1, 1023, 0, 0)>>,
    \* (2.5, 1.5, -2.5, -1.5)
    <<Dbl(0, 1024, 16777216, 0), Dbl(0, 1023, 33554432, 0),
      Dbl(1, 1024, 16777216, 0), Dbl(1, 1023, 33554432, 0)>>,
    \* (1.5, -1.5, 1.2, -1.2)
    <<Dbl(0, 1023, 33554432, 0), Dbl(1, 1023, 33554432, 0),
      Dbl(0, 1023, 13421772, 53687091), Dbl(1, 1023, 13421772, 53687091)>>,
    \* (NaN, 2^52 + 1, 1.2, -infinity)
    <<Dbl(0, 2047, 33554432, 0), Dbl(0, 1075, 0, 1),
      Dbl(0, 1023, 13421772, 53687091), Dbl(1, 2047, 0, 0)>>,
    \* (-0.0, 0.0, 4.9e-324, 1.5): a squared 3D length of zero
    <<Dbl(1, 0, 0, 0), Dbl(0, 0, 0, 0), Dbl(0, 0, 0, 1), Dbl(0, 1023, 33554432, 0)>>
}

Inputs == {InputVector(i) : i \in 0 .. NumLaneValues - 1} \cup Examples

\* third operands: either of the other two, the second one step up, the first
\* with its halves exchanged
ThirdOf(v, r) == {v, r, MapLanes(ValueUp, r), <<v[3], v[4], v[1], v[2]>>}

\* double operands: the interpolation end points and the middle
Alphas == {PosZero, One, Half}

\* the default threshold of vector_normalize3, 1.0E-8
DefaultThreshold == Dbl(0, 996, 22963128, 36736058)

\* thresholds: the default, 1.0, the squared length itself and one step above
ThresholdsAt(len_sq) ==
    {DefaultThreshold, One} \cup (IF IsNaN(len_sq) THEN {} ELSE {len_sq, ValueUp(len_sq)})

Thresholds(b, v) == ThresholdsAt(vector_length_squared3(b, v))

\* the default threshold of the near_equal reducers, 0.00001
NearThreshold == Dbl(0, 1006, 20852066, 14903537)

\* thresholds of a near_equal call: the default, the distance between the x
\* lanes, the distance between the z lanes
NearThresholds(v, r) ==
    {NearThreshold, scalar_abs(SubPd(v[1], r[1])), scalar_abs(SubPd(v[3], r[3]))}

\* template arguments of vector_mix: the first input, the second, lanes
\* alternating, reversed, repeated
Mixes == {<<mix4.x, mix4.y, mix4.z, mix4.w>>, <<mix4.a, mix4.b, mix4.c, mix4.d>>,
          <<mix4.x, mix4.b, mix4.z, mix4.d>>, <<mix4.a, mix4.y, mix4.c, mix4.w>>,
          <<mix4.w, mix4.z, mix4.y, mix4.x>>, <<mix4.d, mix4.c, mix4.b, mix4.a>>,
          <<mix4.y, mix4.y, mix4.c, mix4.c>>, <<mix4.d, mix4.x, mix4.a, mix4.w>>}

\* lane values to set: a lane of the second operand, -0.0
LaneValues(r) == {r[3], NegZero}

\* a sine and a cosine of one lane: off the poles, at a pole with a cosine of
\* either zero, of a NaN angle
SinCos == <<[sin |-> PosZero, cos |-> One], [sin |-> One, cos |-> PosZero],
            [sin |-> MinusOne, cos |-> NegZero], [sin |-> Half, cos |-> MinusOne],
            [sin |-> DefaultNaN, cos |-> DefaultNaN]>>

\* the lane-wise sines and cosines of a vector, by the index of each lane in SinCos
SinCosVector(k) ==
    [sin |-> <<SinCos[k[1]].sin, SinCos[k[2]].sin, SinCos[k[3]].sin, SinCos[k[4]].sin>>,
     cos |-> <<SinCos[k[1]].cos, SinCos[k[2]].cos, SinCos[k[3]].cos, SinCos[k[4]].cos>>]

TrigValues ==
    {SinCosVector(k) : k \in {<<1, 2, 3, 4>>, <<2, 3, 4, 1>>, <<3, 4, 1, 2>>, <<4, 1, 2, 3>>,
                              <<4, 4, 1, 1>>, <<5, 2, 5, 3>>}}

\* second operands: the same vector, its lanes rotated, every lane one step up,
\* its y and w lanes exchanged
RhsOf(v) == {v, <<v[4], v[1], v[2], v[3]>>, MapLanes(ValueUp, v),
             <<v[1], v[4], v[3], v[2]>>}

\* ------------------------------------------------------------------------
\* State machine: one build configuration, one call of one operation
\* ------------------------------------------------------------------------

VARIABLES
    backend,    \* the build configuration the library was compiled for
    input,      \* first (or only) vector operand
    rhs,        \* second vector operand
    op,         \* the operation that was called, "none" before the call
    mask,       \* mask4d operand, all-zeros until a call passes one
    third,      \* third vector operand, zero until a call passes one
    scalar,     \* double operand, 0.0 until a call passes one
    trig,       \* what vector_sin and vector_cos returned, zero until they are called
    value,      \* the double an operation returned, 0.0 until one does
    components, \* template arguments of vector_mix, <x, y, z, w> until it is called
    result,     \* the vector4d returned
    flag        \* the bool returned

vars == <<backend, input, rhs, mask, third, scalar, trig, op, result, flag, value,
          components>>

\* the vector_all_* and vector_any_* reducers, by the name after "vector_"
Reducers ==
    {q \o "_" \o c \o n : q \in {"all", "any"},
                          c \in {"less_than", "less_equal", "greater_than", "greater_equal"},
                          n \in {"", "2", "3"}}

\* vector_add .. vector_div and the operations built from them, by the name
\* after "vector_" ("_d" for the overload that takes a double)
Arithmetic == {"add", "sub", "mul", "mul_d", "div", "neg", "reciprocal", "mul_add",
               "mul_add_d", "neg_mul_sub", "neg_mul_sub_d", "lerp"}

\* vector_load and vector_load1 / 2 / 3, by the name after "vector_" (with
\* the struct name for the overload that takes a float2d / float3d / float4d)
Loads == {"load", "load1", "load2", "load3", "load_float4d", "load2_float2d", "load3_float3d"}

\* vector_store1 / 2 / 3, by the name after "vector_" ("_bytes" for the
\* overload that takes a uint8_t*, the struct name for a float2d / float3d)
ArrayStores == {"store1", "store2", "store3"}
ByteStores == {"store1_bytes", "store2_bytes", "store3_bytes"}
StructStores == {"store2_float2d", "store3_float3d"}
Stores == ArrayStores \cup ByteStores \cup StructStores

\* vector_set_x / y / z / w, by the name after "vector_"
LaneSetters == {"set_x", "set_y", "set_z", "set_w"}

\* vector_all_near_equal .. vector_any_near_equal3, by the name after "vector_"
NearReducers == {"all_near_equal", "all_near_equal2", "all_near_equal3",
                 "any_near_equal", "any_near_equal2", "any_near_equal3"}

\* the operations on the first three lanes that return a double, by the name
\* after "vector_"
Lengths3 == {"dot3", "length_squared3", "length3", "length_reciprocal3", "distance3"}

\* vector_dup_x / y / z / w, by the name after "vector_"
Dups == {"dup_x", "dup_y", "dup_z", "dup_w"}

\* the comparisons that return a mask4d, by the name after "vector_"
MaskComparisons == {"equal", "less_than", "less_equal", "greater_than", "greater_equal"}

Ops == {"none", "ceil", "floor", "round_symmetric", "round_bankers", "select",
        "max", "min", "clamp", "normalize3", "mix", "normalize3_unit", "abs", "tan", "copy_sign", "sign"}
       \cup Arithmetic \cup Loads \cup Stores \cup LaneSetters
       \cup Dups \cup Lengths3 \cup Reducers \cup NearReducers \cup MaskComparisons

\* every mask4d whose lanes are all-ones or all-zeros
MaskPatterns == {<<a, b, c, d>> : a \in {AllOnes, AllZeros}, b \in {AllOnes, AllZeros},
                                 c \in {AllOnes, AllZeros}, d \in {AllOnes, AllZeros}}

Init ==
    /\ backend \in Backends
    /\ input \in Inputs
    /\ rhs \in RhsOf(input)
    /\ mask = <<AllZeros, AllZeros, AllZeros, AllZeros>>
    /\ third = vector_zero
    /\ scalar = PosZero
    /\ trig = [sin |-> vector_zero, cos |-> vector_zero]
    /\ value = PosZero
    /\ components = <<mix4.x, mix4.y, mix4.z, mix4.w>>
    /\ op = "none"
    /\ result = vector_zero
    /\ flag = FALSE

Ceil ==
    /\ op = "none"
    /\ op' = "ceil"
    /\ result' = vector_ceil(backend, input)
    /\ UNCHANGED <<backend, input, rhs, mask, third, scalar, flag, trig, value, components>>

Floor ==
    /\ op = "none"
    /\ op' = "floor"
    /\ result' = vector_floor(backend, input)
    /\ UNCHANGED <<backend, input, rhs, mask, third, scalar, flag, trig, value, components>>

RoundSymmetric ==
    /\ op = "none"
    /\ op' = "round_symmetric"
    /\ result' = vector_round_symmetric(backend, input)
    /\ UNCHANGED <<backend, input, rhs, mask, third, scalar, flag, trig, value, components>>

RoundBankers ==
    /\ op = "none"
    /\ op' = "round_bankers"
    /\ result' = vector_round_bankers(backend, input)
    /\ UNCHANGED <<backend, input, rhs, mask, third, scalar, flag, trig, value, components>>

AllLessThan ==
    /\ op = "none"
    /\ op' = "all_less_than"
    /\ flag' = vector_all_less_than(backend, input, rhs)
    /\ UNCHANGED <<backend, input, rhs, mask, third, scalar, result, trig, value, components>>

AnyGreaterEqual ==
    /\ op = "none"
    /\ op' = "any_greater_equal"
    /\ flag' = vector_any_greater_equal(backend, input, rhs)
    /\ UNCHANGED <<backend, input, rhs, mask, third, scalar, result, trig, value, components>>

AllLessThan2 ==
    /\ op = "none"
    /\ op' = "all_less_than2"
    /\ flag' = vector_all_less_than2(backend, input, rhs)
    /\ UNCHANGED <<backend, input, rhs, mask, third, scalar, result, trig, value, components>>

AllLessThan3 ==
    /\ op = "none"
    /\ op' = "all_less_than3"
    /\ flag' = vector_all_less_than3(backend, input, rhs)
    /\ UNCHANGED <<backend, input, rhs, mask, third, scalar, result, trig, value, components>>

AnyLessThan ==
    /\ op = "none"
    /\ op' = "any_less_than"
    /\ flag' = vector_any_less_than(backend, input, rhs)
    /\ UNCHANGED <<backend, input, rhs, mask, third, scalar, result, trig, value, components>>

AnyLessThan2 ==
    /\ op = "none"
    /\ op' = "any_less_than2"
    /\ flag' = vector_any_less_than2(backend, input, rhs)
    /\ UNCHANGED <<backend, input, rhs, mask, third, scalar, result, trig, value, components>>

AnyLessThan3 ==
    /\ op = "none"
    /\ op' = "any_less_than3"
    /\ flag' = vector_any_less_than3(backend, input, rhs)
    /\ UNCHANGED <<backend, input, rhs, mask, third, scalar, result, trig, value, components>>

AllLessEqual ==
    /\ op = "none"
    /\ op' = "all_less_equal"
    /\ flag' = vector_all_less_equal(backend, input, rhs)
    /\ UNCHANGED <<backend, input, rhs, mask, third, scalar, result, trig, value, components>>

AllLessEqual2 ==
    /\ op = "none"
    /\ op' = "all_less_equal2"
    /\ flag' = vector_all_less_equal2(backend, input, rhs)
    /\ UNCHANGED <<backend, input, rhs, mask, third, scalar, result, trig, value, components>>

AllLessEqual3 ==
    /\ op = "none"
    /\ op' = "all_less_equal3"
    /\ flag' = vector_all_less_equal3(backend, input, rhs)
    /\ UNCHANGED <<backend, input, rhs, mask, third, scalar, result, trig, value, components>>

AnyLessEqual ==
    /\ op = "none"
    /\ op' = "any_less_equal"
    /\ flag' = vector_any_less_equal(backend, input, rhs)
    /\ UNCHANGED <<backend, input, rhs, mask, third, scalar, result, trig, value, components>>

AnyLessEqual2 ==
    /\ op = "none"
    /\ op' = "any_less_equal2"
    /\ flag' = vector_any_less_equal2(backend, input, rhs)
    /\ UNCHANGED <<backend, input, rhs, mask, third, scalar, result, trig, value, components>>

AnyLessEqual3 ==
    /\ op = "none"
    /\ op' = "any_less_equal3"
    /\ flag' = vector_any_less_equal3(backend, input, rhs)
    /\ UNCHANGED <<backend, input, rhs, mask, third, scalar, result, trig, value, components>>

AllGreaterThan ==
    /\ op = "none"
    /\ op' = "all_greater_than"
    /\ flag' = vector_all_greater_than(backend, input, rhs)
    /\ UNCHANGED <<backend, input, rhs, mask, third, scalar, result, trig, value, components>>

AllGreaterThan2 ==
    /\ op = "none"
    /\ op' = "all_greater_than2"
    /\ flag' = vector_all_greater_than2(backend, input, rhs)
    /\ UNCHANGED <<backend, input, rhs, mask, third, scalar, result, trig, value, components>>

AllGreaterThan3 ==
    /\ op = "none"
    /\ op' = "all_greater_than3"
    /\ flag' = vector_all_greater_than3(backend, input, rhs)
    /\ UNCHANGED <<backend, input, rhs, mask, third, scalar, result, trig, value, components>>

AnyGreaterThan ==
    /\ op = "none"
    /\ op' = "any_greater_than"
    /\ flag' = vector_any_greater_than(backend, input, rhs)
    /\ UNCHANGED <<backend, input, rhs, mask, third, scalar, result, trig, value, components>>

AnyGreaterThan2 ==
    /\ op = "none"
    /\ op' = "any_greater_than2"
    /\ flag' = vector_any_greater_than2(backend, input, rhs)
    /\ UNCHANGED <<backend, input, rhs, mask, third, scalar, result, trig, value, components>>

AnyGreaterThan3 ==
    /\ op = "none"
    /\ op' = "any_greater_than3"
    /\ flag' = vector_any_greater_than3(backend, input, rhs)
    /\ UNCHANGED <<backend, input, rhs, mask, third, scalar, result, trig, value, components>>

AllGreaterEqual ==
    /\ op = "none"
    /\ op' = "all_greater_equal"
    /\ flag' = vector_all_greater_equal(backend, input, rhs)
    /\ UNCHANGED <<backend, input, rhs, mask, third, scalar, result, trig, value, components>>

AllGreaterEqual2 ==
    /\ op = "none"
    /\ op' = "all_greater_equal2"
    /\ flag' = vector_all_greater_equal2(backend, input, rhs)
    /\ UNCHANGED <<backend, input, rhs, mask, third, scalar, result, trig, value, components>>

AllGreaterEqual3 ==
    /\ op = "none"
    /\ op' = "all_greater_equal3"
    /\ flag' = vector_all_greater_equal3(backend, input, rhs)
    /\ UNCHANGED <<backend, input, rhs, mask, third, scalar, result, trig, value, components>>

AnyGreaterEqual2 ==
    /\ op = "none"
    /\ op' = "any_greater_equal2"
    /\ flag' = vector_any_greater_equal2(backend, input, rhs)
    /\ UNCHANGED <<backend, input, rhs, mask, third, scalar, result, trig, value, components>>

AnyGreaterEqual3 ==
    /\ op = "none"
    /\ op' = "any_greater_equal3"
    /\ flag' = vector_any_greater_equal3(backend, input, rhs)
    /\ UNCHANGED <<backend, input, rhs, mask, third, scalar, result, trig, value, components>>

Select ==
    /\ op = "none"
    /\ op' = "select"
    /\ \E m \in MaskPatterns :
           /\ mask' = m
           /\ result' = vector_select(backend, m, input, rhs)
    /\ UNCHANGED <<backend, input, rhs, third, scalar, flag, trig, value, components>>

Equal ==
    /\ op = "none"
    /\ op' = "equal"
    /\ result' = vector_equal(backend, input, rhs)
    /\ UNCHANGED <<backend, input, rhs, mask, third, scalar, flag, trig, value, components>>

LessThan ==
    /\ op = "none"
    /\ op' = "less_than"
    /\ result' = vector_less_than(backend, input, rhs)
    /\ UNCHANGED <<backend, input, rhs, mask, third, scalar, flag, trig, value, components>>

LessEqual ==
    /\ op = "none"
    /\ op' = "less_equal"
    /\ result' = vector_less_equal(backend, input, rhs)
    /\ UNCHANGED <<backend, input, rhs, mask, third, scalar, flag, trig, value, components>>

GreaterThan ==
    /\ op = "none"
    /\ op' = "greater_than"
    /\ result' = vector_greater_than(backend, input, rhs)
    /\ UNCHANGED <<backend, input, rhs, mask, third, scalar, flag, trig, value, components>>

GreaterEqual ==
    /\ op = "none"
    /\ op' = "greater_equal"
    /\ result' = vector_greater_equal(backend, input, rhs)
    /\ UNCHANGED <<backend, input, rhs, mask, third, scalar, flag, trig, value, components>>

Max ==
    /\ op = "none"
    /\ op' = "max"
    /\ result' = vector_max(backend, input, rhs)
    /\ UNCHANGED <<backend, input, rhs, mask, third, scalar, flag, trig, value, components>>

Min ==
    /\ op = "none"
    /\ op' = "min"
    /\ result' = vector_min(backend, input, rhs)
    /\ UNCHANGED <<backend, input, rhs, mask, third, scalar, flag, trig, value, components>>

\* vector_clamp(input, min_value = rhs, max_value = third)
Clamp ==
    /\ op = "none"
    /\ op' = "clamp"
    /\ \E t \in ThirdOf(input, rhs) :
           /\ third' = t
           /\ result' = vector_clamp(backend, input, rhs, t)
    /\ UNCHANGED <<backend, input, rhs, mask, scalar, flag, trig, value, components>>

Add ==
    /\ op = "none"
    /\ op' = "add"
    /\ result' = vector_add(backend, input, rhs)
    /\ UNCHANGED <<backend, input, rhs, mask, third, scalar, flag, trig, value, components>>

Sub ==
    /\ op = "none"
    /\ op' = "sub"
    /\ result' = vector_sub(backend, input, rhs)
    /\ UNCHANGED <<backend, input, rhs, mask, third, scalar, flag, trig, value, components>>

Mul ==
    /\ op = "none"
    /\ op' = "mul"
    /\ result' = vector_mul(backend, input, rhs)
    /\ UNCHANGED <<backend, input, rhs, mask, third, scalar, flag, trig, value, components>>

MulD ==
    /\ op = "none"
    /\ op' = "mul_d"
    /\ \E a \in Alphas :
           /\ scalar' = a
           /\ result' = vector_mul_d(backend, input, a)
    /\ UNCHANGED <<backend, input, rhs, mask, third, flag, trig, value, components>>

Div ==
    /\ op = "none"
    /\ op' = "div"
    /\ result' = vector_div(backend, input, rhs)
    /\ UNCHANGED <<backend, input, rhs, mask, third, scalar, flag, trig, value, components>>

Neg ==
    /\ op = "none"
    /\ op' = "neg"
    /\ result' = vector_neg(backend, input)
    /\ UNCHANGED <<backend, input, rhs, mask, third, scalar, flag, trig, value, components>>

Reciprocal ==
    /\ op = "none"
    /\ op' = "reciprocal"
    /\ result' = vector_reciprocal(backend, input)
    /\ UNCHANGED <<backend, input, rhs, mask, third, scalar, flag, trig, value, components>>

MulAdd ==
    /\ op = "none"
    /\ op' = "mul_add"
    /\ \E t \in ThirdOf(input, rhs) :
           /\ third' = t
           /\ result' = vector_mul_add(backend, input, rhs, t)
    /\ UNCHANGED <<backend, input, rhs, mask, scalar, flag, trig, value, components>>

MulAddD ==
    /\ op = "none"
    /\ op' = "mul_add_d"
    /\ \E a \in Alphas :
           /\ scalar' = a
           /\ result' = vector_mul_add_d(backend, input, a, rhs)
    /\ UNCHANGED <<backend, input, rhs, mask, third, flag, trig, value, components>>

NegMulSub ==
    /\ op = "none"
    /\ op' = "neg_mul_sub"
    /\ \E t \in ThirdOf(input, rhs) :
           /\ third' = t
           /\ result' = vector_neg_mul_sub(backend, input, rhs, t)
    /\ UNCHANGED <<backend, input, rhs, mask, scalar, flag, trig, value, components>>

NegMulSubD ==
    /\ op = "none"
    /\ op' = "neg_mul_sub_d"
    /\ \E a \in Alphas :
           /\ scalar' = a
           /\ result' = vector_neg_mul_sub_d(backend, input, a, rhs)
    /\ UNCHANGED <<backend, input, rhs, mask, third, flag, trig, value, components>>

Lerp ==
    /\ op = "none"
    /\ op' = "lerp"
    /\ \E a \in Alphas :
           /\ scalar' = a
           /\ result' = vector_lerp(backend, input, rhs, a)
    /\ UNCHANGED <<backend, input, rhs, mask, third, flag, trig, value, components>>

\* vector_normalize3(input, fallback = rhs, threshold = scalar)
Normalize3 ==
    /\ op = "none"
    /\ op' = "normalize3"
    /\ \E t \in Thresholds(backend, input) :
           /\ scalar' = t
           /\ result' = vector_normalize3(backend, input, rhs, t)
    /\ UNCHANGED <<backend, input, rhs, mask, third, flag, trig, value, components>>

\* the loads read the memory that holds the four doubles of input, as an
\* array or as the struct laid over its first elements
Load ==
    /\ op = "none"
    /\ op' = "load"
    /\ result' = vector_load(input)
    /\ UNCHANGED <<backend, input, rhs, mask, third, scalar, flag, trig, value, components>>

Load1 ==
    /\ op = "none"
    /\ op' = "load1"
    /\ result' = vector_load1(input)
    /\ UNCHANGED <<backend, input, rhs, mask, third, scalar, flag, trig, value, components>>

Load2 ==
    /\ op = "none"
    /\ op' = "load2"
    /\ result' = vector_load2(input)
    /\ UNCHANGED <<backend, input, rhs, mask, third, scalar, flag, trig, value, components>>

Load3 ==
    /\ op = "none"
    /\ op' = "load3"
    /\ result' = vector_load3(input)
    /\ UNCHANGED <<backend, input, rhs, mask, third, scalar, flag, trig, value, components>>

LoadFloat4d ==
    /\ op = "none"
    /\ op' = "load_float4d"
    /\ result' = vector_load_float4d(float4d(input[1], input[2], input[3], input[4]))
    /\ UNCHANGED <<backend, input, rhs, mask, third, scalar, flag, trig, value, components>>

Load2Float2d ==
    /\ op = "none"
    /\ op' = "load2_float2d"
    /\ result' = vector_load2_float2d(float2d(input[1], input[2]))
    /\ UNCHANGED <<backend, input, rhs, mask, third, scalar, flag, trig, value, components>>

Load3Float3d ==
    /\ op = "none"
    /\ op' = "load3_float3d"
    /\ result' = vector_load3_float3d(float3d(input[1], input[2], input[3]))
    /\ UNCHANGED <<backend, input, rhs, mask, third, scalar, flag, trig, value, components>>

\* the stores write over memory that held the four doubles of rhs, as an
\* array, as bytes, or as the struct laid over its first elements
Store1 ==
    /\ op = "none"
    /\ op' = "store1"
    /\ result' = vector_store1(backend, input, rhs)
    /\ UNCHANGED <<backend, input, rhs, mask, third, scalar, flag, trig, value, components>>

Store2 ==
    /\ op = "none"
    /\ op' = "store2"
    /\ result' = vector_store2(backend, input, rhs)
    /\ UNCHANGED <<backend, input, rhs, mask, third, scalar, flag, trig, value, components>>

Store3 ==
    /\ op = "none"
    /\ op' = "store3"
    /\ result' = vector_store3(backend, input, rhs)
    /\ UNCHANGED <<backend, input, rhs, mask, third, scalar, flag, trig, value, components>>

Store1Bytes ==
    /\ op = "none"
    /\ op' = "store1_bytes"
    /\ result' = vector_store1_bytes(input, ObjectBytes(rhs))
    /\ UNCHANGED <<backend, input, rhs, mask, third, scalar, flag, trig, value, components>>

Store2Bytes ==
    /\ op = "none"
    /\ op' = "store2_bytes"
    /\ result' = vector_store2_bytes(input, ObjectBytes(rhs))
    /\ UNCHANGED <<backend, input, rhs, mask, third, scalar, flag, trig, value, components>>

Store3Bytes ==
    /\ op = "none"
    /\ op' = "store3_bytes"
    /\ result' = vector_store3_bytes(input, ObjectBytes(rhs))
    /\ UNCHANGED <<backend, input, rhs, mask, third, scalar, flag, trig, value, components>>

Store2Float2d ==
    /\ op = "none"
    /\ op' = "store2_float2d"
    /\ result' = vector_store2_float2d(backend, input, float2d(rhs[1], rhs[2]))
    /\ UNCHANGED <<backend, input, rhs, mask, third, scalar, flag, trig, value, components>>

Store3Float3d ==
    /\ op = "none"
    /\ op' = "store3_float3d"
    /\ result' = vector_store3_float3d(backend, input, float3d(rhs[1], rhs[2], rhs[3]))
    /\ UNCHANGED <<backend, input, rhs, mask, third, scalar, flag, trig, value, components>>

SetX ==
    /\ op = "none"
    /\ op' = "set_x"
    /\ \E v \in LaneValues(rhs) :
           /\ scalar' = v
           /\ result' = vector_set_x(backend, input, v)
    /\ UNCHANGED <<backend, input, rhs, mask, third, flag, trig, value, components>>

SetY ==
    /\ op = "none"
    /\ op' = "set_y"
    /\ \E v \in LaneValues(rhs) :
           /\ scalar' = v
           /\ result' = vector_set_y(backend, input, v)
    /\ UNCHANGED <<backend, input, rhs, mask, third, flag, trig, value, components>>

SetZ ==
    /\ op = "none"
    /\ op' = "set_z"
    /\ \E v \in LaneValues(rhs) :
           /\ scalar' = v
           /\ result' = vector_set_z(backend, input, v)
    /\ UNCHANGED <<backend, input, rhs, mask, third, flag, trig, value, components>>

SetW ==
    /\ op = "none"
    /\ op' = "set_w"
    /\ \E v \in LaneValues(rhs) :
           /\ scalar' = v
           /\ result' = vector_set_w(backend, input, v)
    /\ UNCHANGED <<backend, input, rhs, mask, third, flag, trig, value, components>>

Sign ==
    /\ op = "none"
    /\ op' = "sign"
    /\ result' = vector_sign(backend, input)
    /\ UNCHANGED <<backend, input, rhs, mask, third, scalar, flag, trig, value, components>>

CopySign ==
    /\ op = "none"
    /\ op' = "copy_sign"
    /\ result' = vector_copy_sign(backend, input, rhs)
    /\ UNCHANGED <<backend, input, rhs, mask, third, scalar, flag, trig, value, components>>

Tan ==
    /\ op = "none"
    /\ op' = "tan"
    /\ \E t \in TrigValues :
           /\ trig' = t
           /\ result' = vector_tan(backend, input, t.sin, t.cos)
    /\ UNCHANGED <<backend, input, rhs, mask, third, scalar, flag, value, components>>

Abs ==
    /\ op = "none"
    /\ op' = "abs"
    /\ result' = vector_abs(backend, input)
    /\ UNCHANGED <<backend, input, rhs, mask, third, scalar, flag, trig, value, components>>

AllNearEqual ==
    /\ op = "none"
    /\ op' = "all_near_equal"
    /\ \E t \in NearThresholds(input, rhs) :
           /\ scalar' = t
           /\ flag' = vector_all_near_equal(backend, input, rhs, t)
    /\ UNCHANGED <<backend, input, rhs, mask, third, result, trig, value, components>>

AllNearEqual2 ==
    /\ op = "none"
    /\ op' = "all_near_equal2"
    /\ \E t \in NearThresholds(input, rhs) :
           /\ scalar' = t
           /\ flag' = vector_all_near_equal2(backend, input, rhs, t)
    /\ UNCHANGED <<backend, input, rhs, mask, third, result, trig, value, components>>

AllNearEqual3 ==
    /\ op = "none"
    /\ op' = "all_near_equal3"
    /\ \E t \in NearThresholds(input, rhs) :
           /\ scalar' = t
           /\ flag' = vector_all_near_equal3(backend, input, rhs, t)
    /\ UNCHANGED <<backend, input, rhs, mask, third, result, trig, value, components>>

AnyNearEqual ==
    /\ op = "none"
    /\ op' = "any_near_equal"
    /\ \E t \in NearThresholds(input, rhs) :
           /\ scalar' = t
           /\ flag' = vector_any_near_equal(backend, input, rhs, t)
    /\ UNCHANGED <<backend, input, rhs, mask, third, result, trig, value, components>>

AnyNearEqual2 ==
    /\ op = "none"
    /\ op' = "any_near_equal2"
    /\ \E t \in NearThresholds(input, rhs) :
           /\ scalar' = t
           /\ flag' = vector_any_near_equal2(backend, input, rhs, t)
    /\ UNCHANGED <<backend, input, rhs, mask, third, result, trig, value, components>>

AnyNearEqual3 ==
    /\ op = "none"
    /\ op' = "any_near_equal3"
    /\ \E t \in NearThresholds(input, rhs) :
           /\ scalar' = t
           /\ flag' = vector_any_near_equal3(backend, input, rhs, t)
    /\ UNCHANGED <<backend, input, rhs, mask, third, result, trig, value, components>>

Dot3 ==
    /\ op = "none"
    /\ op' = "dot3"
    /\ value' = vector_dot3(backend, input, rhs)
    /\ UNCHANGED <<backend, input, rhs, mask, third, scalar, result, flag, trig, components>>

LengthSquared3 ==
    /\ op = "none"
    /\ op' = "length_squared3"
    /\ value' = vector_length_squared3(backend, input)
    /\ UNCHANGED <<backend, input, rhs, mask, third, scalar, result, flag, trig, components>>

Length3 ==
    /\ op = "none"
    /\ op' = "length3"
    /\ value' = vector_length3(backend, input)
    /\ UNCHANGED <<backend, input, rhs, mask, third, scalar, result, flag, trig, components>>

LengthReciprocal3 ==
    /\ op = "none"
    /\ op' = "length_reciprocal3"
    /\ value' = vector_length_reciprocal3(backend, input)
    /\ UNCHANGED <<backend, input, rhs, mask, third, scalar, result, flag, trig, components>>

Distance3 ==
    /\ op = "none"
    /\ op' = "distance3"
    /\ value' = vector_distance3(backend, input, rhs)
    /\ UNCHANGED <<backend, input, rhs, mask, third, scalar, result, flag, trig, components>>

\* vector_normalize3(input): the scale factor, then the input multiplied by it
Normalize3Unit ==
    /\ op = "none"
    /\ op' = "normalize3_unit"
    /\ value' = normalize3_scale(backend, input)
    /\ result' = vector_mul_s(backend, input, value')
    /\ UNCHANGED <<backend, input, rhs, mask, third, scalar, flag, trig, components>>

Mix ==
    /\ op = "none"
    /\ op' = "mix"
    /\ \E c \in Mixes :
           /\ components' = c
           /\ result' = vector_mix(backend, c[1], c[2], c[3], c[4], input, rhs)
    /\ UNCHANGED <<backend, input, rhs, mask, third, scalar, flag, trig, value>>

DupX ==
    /\ op = "none"
    /\ op' = "dup_x"
    /\ result' = vector_dup_x(backend, input)
    /\ UNCHANGED <<backend, input, rhs, mask, third, scalar, flag, trig, value, components>>

DupY ==
    /\ op = "none"
    /\ op' = "dup_y"
    /\ result' = vector_dup_y(backend, input)
    /\ UNCHANGED <<backend, input, rhs, mask, third, scalar, flag, trig, value, components>>

DupZ ==
    /\ op = "none"
    /\ op' = "dup_z"
    /\ result' = vector_dup_z(backend, input)
    /\ UNCHANGED <<backend, input, rhs, mask, third, scalar, flag, trig, value, components>>

DupW ==
    /\ op = "none"
    /\ op' = "dup_w"
    /\ result' = vector_dup_w(backend, input)
    /\ UNCHANGED <<backend, input, rhs, mask, third, scalar, flag, trig, value, components>>

Next ==
    \/ Ceil
    \/ Floor
    \/ RoundSymmetric
    \/ RoundBankers
    \/ AllLessThan
    \/ AnyGreaterEqual
    \/ AllLessThan2
    \/ AllLessThan3
    \/ AnyLessThan
    \/ AnyLessThan2
    \/ AnyLessThan3
    \/ AllLessEqual
    \/ AllLessEqual2
    \/ AllLessEqual3
    \/ AnyLessEqual
    \/ AnyLessEqual2
    \/ AnyLessEqual3
    \/ AllGreaterThan
    \/ AllGreaterThan2
    \/ AllGreaterThan3
    \/ AnyGreaterThan
    \/ AnyGreaterThan2
    \/ AnyGreaterThan3
    \/ AllGreaterEqual
    \/ AllGreaterEqual2
    \/ AllGreaterEqual3
    \/ AnyGreaterEqual2
    \/ AnyGreaterEqual3
    \/ Select
    \/ Equal
    \/ LessThan
    \/ LessEqual
    \/ GreaterThan
    \/ GreaterEqual
    \/ Max
    \/ Min
    \/ Clamp
    \/ Add
    \/ Sub
    \/ Mul
    \/ MulD
    \/ Div
    \/ Neg
    \/ Reciprocal
    \/ MulAdd
    \/ MulAddD
    \/ NegMulSub
    \/ NegMulSubD
    \/ Lerp
    \/ Normalize3
    \/ Load
    \/ Load1
    \/ Load2
    \/ Load3
    \/ LoadFloat4d
    \/ Load2Float2d
    \/ Load3Float3d
    \/ Store1
    \/ Store2
    \/ Store3
    \/ Store1Bytes
    \/ Store2Bytes
    \/ Store3Bytes
    \/ Store2Float2d
    \/ Store3Float3d
    \/ SetX
    \/ SetY
    \/ SetZ
    \/ SetW
    \/ Sign
    \/ CopySign
    \/ Tan
    \/ Abs
    \/ AllNearEqual
    \/ AllNearEqual2
    \/ AllNearEqual3
    \/ AnyNearEqual
    \/ AnyNearEqual2
    \/ AnyNearEqual3
    \/ Dot3
    \/ LengthSquared3
    \/ Length3
    \/ LengthReciprocal3
    \/ Distance3
    \/ Normalize3Unit
    \/ Mix
    \/ DupX
    \/ DupY
    \/ DupZ
    \/ DupW

Spec == Init /\ [][Next]_vars

TypeOK ==
    /\ backend \in Backends
    /\ op \in Ops
    /\ flag \in BOOLEAN

\* ------------------------------------------------------------------------
\* Vocabulary of the properties
\* ------------------------------------------------------------------------

Lanes == 1 .. 4

\* finite with magnitude below 2^52
BelowLimit(d) == d.e < ExpBias + 52

\* NaN, an infinity or a finite value of magnitude >= 2^52
AtLeastLimit(d) == d.e >= ExpBias + 52

\* the value is a whole number
IsIntegral(d) ==
    /\ IsFinite(d)
    /\ \/ IsZero(d)
       \/ d.e >= ExpBias + 52
       \/ d.e >= ExpBias /\ IntSplit(d).exact

\* the value is an even whole number
IsEven(d) ==
    \/ IsZero(d)
    \/ IsFinite(d) /\ d.e >= ExpBias + 1 /\ IsIntegral([d EXCEPT !.e = d.e - 1])

\* the same lane: the same bits, a NaN standing for any NaN
SameLane(r, x) == r = x \/ (IsNaN(r) /\ IsNaN(x))

\* r is the smallest whole number not less than x: r - 1 < x <= r
IsCeilOf(r, x) == IsIntegral(r) /\ FpGe(r, x) /\ FpLt(SubPd(r, One), x)

\* r is the largest whole number not greater than x: r <= x < r + 1
IsFloorOf(r, x) == IsIntegral(r) /\ FpLe(r, x) /\ FpGt(AddPd(r, One), x)

\* r is the whole number nearest to x, the even one of two: r - 1/2 <= x <=
\* r + 1/2 with equality only for even r (r -+ 1/2 is exact below 2^52)
IsNearestEvenOf(r, x) ==
    /\ IsIntegral(r)
    /\ FpLe(SubPd(r, Half), x) /\ FpLe(x, AddPd(r, Half))
    /\ (FpEq(SubPd(r, Half), x) \/ FpEq(x, AddPd(r, Half))) => IsEven(r)

\* r is the whole number nearest to x, the one farther from zero of two
IsNearestAwayOf(r, x) ==
    /\ IsIntegral(r)
    /\ IF FpGe(x, PosZero)
       THEN FpLe(SubPd(r, Half), x) /\ (FpLt(x, AddPd(r, Half)) \/ r.e >= ExpBias + 52)
       ELSE FpLe(x, AddPd(r, Half)) /\ (FpLt(SubPd(r, Half), x) \/ r.e >= ExpBias + 52)

NoNaN(v) == \A i \in Lanes : ~IsNaN(v[i])

\* ------------------------------------------------------------------------
\* Properties
\* ------------------------------------------------------------------------

\* C1: for every finite lane value x with magnitude below 2^52, vector_ceil
\* returns the smallest integer not less than x, on every code path.
C1_CeilIsSmallestIntegerNotLess ==
    op = "ceil" =>
        \A i \in Lanes : BelowLimit(input[i]) => IsCeilOf(result[i], input[i])

\* C2: for every finite lane value x with magnitude below 2^52, vector_floor
\* returns the largest integer not greater than x, on every code path.
C2_FloorIsLargestIntegerNotGreater ==
    op = "floor" =>
        \A i \in Lanes : BelowLimit(input[i]) => IsFloorOf(result[i], input[i])

\* C3: vector_floor(x) <= x <= vector_ceil(x) in every lane holding a finite x,
\* whatever code path computes the results.
C3_FloorBelowCeilAbove ==
    /\ op = "floor" => \A i \in Lanes : IsFinite(input[i]) => FpLe(result[i], input[i])
    /\ op = "ceil" => \A i \in Lanes : IsFinite(input[i]) => FpGe(result[i], input[i])

\* C4: vector_ceil and vector_floor return a lane unchanged when it holds a
\* NaN, an infinity or a finite value of magnitude >= 2^52, and every lane of
\* the result is the one the same value gives in a vector of its own.
C4_CeilFloorPassthrough ==
    /\ op = "ceil" =>
        \A i \in Lanes :
            /\ AtLeastLimit(input[i]) => SameLane(result[i], input[i])
            /\ result[i] = vector_ceil(backend, vector_set(input[i]))[i]
    /\ op = "floor" =>
        \A i \in Lanes :
            /\ AtLeastLimit(input[i]) => SameLane(result[i], input[i])
            /\ result[i] = vector_floor(backend, vector_set(input[i]))[i]

\* C4 witness: the SSE2 path of vector_ceil passed a NaN lane and a lane of
\* magnitude >= 2^52 through while it rounded another lane up.
C4_Witness ==
    /\ op = "ceil" /\ backend = "sse2"
    /\ \E i, j, k \in Lanes :
        /\ IsNaN(input[i]) /\ IsNaN(result[i])
        /\ IsFinite(input[j]) /\ AtLeastLimit(input[j]) /\ result[j] = input[j]
        /\ BelowLimit(input[k]) /\ FpGt(result[k], input[k])

\* C5: for every finite lane value x with magnitude below 2^52,
\* vector_round_bankers returns the integer nearest to x and the even one
\* when x is halfway between two integers.
C5_BankersIsNearestEven ==
    op = "round_bankers" =>
        \A i \in Lanes : BelowLimit(input[i]) => IsNearestEvenOf(result[i], input[i])

\* C5 witness: the SSE2 path rounded (2.5, 1.5, -2.5, -1.5) to (2, 2, -2, -2).
C5_Witness ==
    /\ op = "round_bankers" /\ backend = "sse2"
    /\ input = <<Dbl(0, 1024, 16777216, 0), Dbl(0, 1023, 33554432, 0),
                 Dbl(1, 1024, 16777216, 0), Dbl(1, 1023, 33554432, 0)>>
    /\ result = <<Dbl(0, 1024, 0, 0), Dbl(0, 1024, 0, 0), Dbl(1, 1024, 0, 0), Dbl(1, 1024, 0, 0)>>

\* C6: vector_round_bankers returns a lane unchanged when it holds a NaN, an
\* infinity or a finite value of magnitude >= 2^52.
C6_BankersPassthrough ==
    op = "round_bankers" =>
        \A i \in Lanes : AtLeastLimit(input[i]) => SameLane(result[i], input[i])

\* C6 witness: the SSE2 path returned the odd value 2^52 + 1 as it is.
C6_Witness ==
    /\ op = "round_bankers" /\ backend = "sse2"
    /\ \E i \in Lanes : input[i] = Dbl(0, 1075, 0, 1) /\ result[i] = input[i]

\* C7: for every finite lane value x with magnitude below 2^52, zero of either
\* sign included, vector_round_symmetric returns the integer nearest to x and
\* the one farther from zero when x is halfway between two integers, so that
\* the result is never more than 0.5 away from x.
C7_SymmetricIsNearestAway ==
    op = "round_symmetric" =>
        \A i \in Lanes : BelowLimit(input[i]) => IsNearestAwayOf(result[i], input[i])

\* C8: vector_round_symmetric returns a lane unchanged when it holds a NaN, an
\* infinity or a finite value of magnitude >= 2^52, on each of its code paths.
C8_SymmetricPassthrough ==
    op = "round_symmetric" =>
        \A i \in Lanes : AtLeastLimit(input[i]) => SameLane(result[i], input[i])

\* C9: the SSE4 path, the SSE2 path and the scalar fallback of
\* vector_round_symmetric return the same value in every lane (NaN up to
\* payload).
C9_SymmetricPathsAgree ==
    op = "round_symmetric" =>
        \A other \in Backends : \A i \in Lanes :
            SameLane(result[i], vector_round_symmetric(other, input)[i])

\* C10: vector_all_less_than(a, b) == !vector_any_greater_equal(a, b) for all
\* vectors a and b, NaN lanes included.
C10_AllLessIsNotAnyGreaterEqual ==
    /\ op = "all_less_than" => flag = ~vector_any_greater_equal(backend, input, rhs)
    /\ op = "any_greater_equal" => flag = ~vector_all_less_than(backend, input, rhs)

\* C10 as amended: vector_all_less_than(a, b) == !vector_any_greater_equal(a, b)
\* for all vectors a and b without a NaN lane; with a NaN lane
\* vector_all_less_than(a, b) still implies !vector_any_greater_equal(a, b).
C10_Amended ==
    /\ op = "all_less_than" =>
        /\ flag => ~vector_any_greater_equal(backend, input, rhs)
        /\ (NoNaN(input) /\ NoNaN(rhs)) => flag = ~vector_any_greater_equal(backend, input, rhs)
    /\ op = "any_greater_equal" =>
        /\ flag => ~vector_all_less_than(backend, input, rhs)
        /\ (NoNaN(input) /\ NoNaN(rhs)) => flag = ~vector_all_less_than(backend, input, rhs)

\* C10 witness: vector_all_less_than returned true on the SSE2 path for two
\* vectors without a NaN lane.
C10_Witness ==
    /\ op = "all_less_than" /\ backend = "sse2"
    /\ NoNaN(input) /\ NoNaN(rhs)
    /\ flag

\* ------------------------------------------------------------------------
\* Reducers, masks and select
\* ------------------------------------------------------------------------

Quantifiers == {"all", "any"}
Comparisons == {"less_than", "less_equal", "greater_than", "greater_equal"}
LaneSuffixes == {"", "2", "3"}

\* the lanes a reducer with the given name suffix looks at
SelectedLanes(n) == IF n = "2" THEN 1 .. 2 ELSE IF n = "3" THEN 1 .. 3 ELSE 1 .. 4

\* the IEEE comparison named c on one lane
Holds(c, a, b) ==
    CASE c = "less_than" -> FpLt(a, b)
      [] c = "less_equal" -> FpLe(a, b)
      [] c = "greater_than" -> FpGt(a, b)
      [] c = "greater_equal" -> FpGe(a, b)
      [] c = "equal" -> FpEq(a, b)

\* the reducer vector_<r> called in build configuration b
CallReducer(r, b, l, r2) ==
    CASE r = "all_less_than" -> vector_all_less_than(b, l, r2)
      [] r = "all_less_than2" -> vector_all_less_than2(b, l, r2)
      [] r = "all_less_than3" -> vector_all_less_than3(b, l, r2)
      [] r = "any_less_than" -> vector_any_less_than(b, l, r2)
      [] r = "any_less_than2" -> vector_any_less_than2(b, l, r2)
      [] r = "any_less_than3" -> vector_any_less_than3(b, l, r2)
      [] r = "all_less_equal" -> vector_all_less_equal(b, l, r2)
      [] r = "all_less_equal2" -> vector_all_less_equal2(b, l, r2)
      [] r = "all_less_equal3" -> vector_all_less_equal3(b, l, r2)
      [] r = "any_less_equal" -> vector_any_less_equal(b, l, r2)
      [] r = "any_less_equal2" -> vector_any_less_equal2(b, l, r2)
      [] r = "any_less_equal3" -> vector_any_less_equal3(b, l, r2)
      [] r = "all_greater_than" -> vector_all_greater_than(b, l, r2)
      [] r = "all_greater_than2" -> vector_all_greater_than2(b, l, r2)
      [] r = "all_greater_than3" -> vector_all_greater_than3(b, l, r2)
      [] r = "any_greater_than" -> vector_any_greater_than(b, l, r2)
      [] r = "any_greater_than2" -> vector_any_greater_than2(b, l, r2)
      [] r = "any_greater_than3" -> vector_any_greater_than3(b, l, r2)
      [] r = "all_greater_equal" -> vector_all_greater_equal(b, l, r2)
      [] r = "all_greater_equal2" -> vector_all_greater_equal2(b, l, r2)
      [] r = "all_greater_equal3" -> vector_all_greater_equal3(b, l, r2)
      [] r = "any_greater_equal" -> vector_any_greater_equal(b, l, r2)
      [] r = "any_greater_equal2" -> vector_any_greater_equal2(b, l, r2)
      [] r = "any_greater_equal3" -> vector_any_greater_equal3(b, l, r2)

\* the vector v with lane i replaced by d
WithLane(v, i, d) == [v EXCEPT ![i] = d]

\* the vector v with every lane but i replaced by d
OnlyLane(v, i, d) == [j \in Lanes |-> IF j = i THEN v[j] ELSE d]

\* values an unselected lane is overwritten with
Probes == {PosZero, NegInf, PosInf, DefaultNaN}

\* C11: each vector_all_* / vector_any_* reducer for less_than, less_equal,
\* greater_than and greater_equal over 4, 2 ("2") or 3 ("3") lanes returns
\* true iff the comparison holds in every / in some selected lane; overwriting
\* an unselected lane of either operand never changes the result; and the
\* SSE2 movemask formula agrees with the scalar && / || formula.
C11_ReducersOverSelectedLanes ==
    \A q \in Quantifiers, c \in Comparisons, n \in LaneSuffixes :
        op = q \o "_" \o c \o n =>
            /\ flag = IF q = "all"
                      THEN \A i \in SelectedLanes(n) : Holds(c, input[i], rhs[i])
                      ELSE \E i \in SelectedLanes(n) : Holds(c, input[i], rhs[i])
            /\ \A i \in Lanes \ SelectedLanes(n) : \A d \in Probes :
                   /\ CallReducer(op, backend, WithLane(input, i, d), rhs) = flag
                   /\ CallReducer(op, backend, input, WithLane(rhs, i, d)) = flag
            /\ CallReducer(op, "sse2", input, rhs) = CallReducer(op, "scalar", input, rhs)

\* an any-reducer over xyz reports false although the w lane compares true
C11_Witness ==
    /\ op = "any_less_than3"
    /\ ~flag
    /\ FpLt(input[4], rhs[4])
    /\ RTM_SSE2_INTRINSICS(backend)

\* C12: vector_select(mask, if_true, if_false) returns, in each lane, the bits
\* of if_true where the mask lane is all-ones and the bits of if_false where it
\* is all-zeros, for every one of the 16 mask patterns; the lane is returned
\* bit for bit (NaN payload and sign of zero included) and depends on no
\* other lane.
C12_SelectIsPerLaneBitSelect ==
    op = "select" =>
        /\ \A i \in Lanes : result[i] = IF mask[i] = AllOnes THEN input[i] ELSE rhs[i]
        /\ \A i \in Lanes : \A d \in {NegZero, DefaultNaN} : \A m \in {AllOnes, AllZeros} :
               vector_select(backend, OnlyLane(mask, i, m), OnlyLane(input, i, d),
                             OnlyLane(rhs, i, d))[i] = result[i]

\* a mixed mask picks a NaN from if_true and a negative zero from if_false
C12_Witness ==
    /\ op = "select"
    /\ \E i \in Lanes : mask[i] = AllOnes /\ IsNaN(input[i]) /\ result[i] = input[i]
    /\ \E i \in Lanes : mask[i] = AllZeros /\ rhs[i] = NegZero /\ result[i] = NegZero
                        /\ input[i] # NegZero

\* C13: every lane of the mask4d returned by vector_equal, vector_less_than,
\* vector_less_equal, vector_greater_than and vector_greater_equal is all-ones
\* or all-zeros, and it is all-ones iff the comparison holds in that lane.
C13_MaskLanesAllOnesIffHolds ==
    op \in MaskComparisons =>
        \A i \in Lanes :
            /\ result[i] \in {AllOnes, AllZeros}
            /\ result[i] = AllOnes <=> Holds(op, input[i], rhs[i])

\* vector_less_equal with an equal lane (all-ones) next to a greater lane
\* (all-zeros)
C13_Witness ==
    /\ op = "less_equal"
    /\ \E i \in Lanes : FpEq(input[i], rhs[i]) /\ result[i] = AllOnes
    /\ \E i \in Lanes : FpGt(input[i], rhs[i]) /\ result[i] = AllZeros

\* the mask comparison vector_<c> called in build configuration b
CallMask(c, b, l, r2) ==
    CASE c = "equal" -> vector_equal(b, l, r2)
      [] c = "less_than" -> vector_less_than(b, l, r2)
      [] c = "less_equal" -> vector_less_equal(b, l, r2)
      [] c = "greater_than" -> vector_greater_than(b, l, r2)
      [] c = "greater_equal" -> vector_greater_equal(b, l, r2)

HasNaN(a, b) == IsNaN(a) \/ IsNaN(b)

\* C19: when lane i of either operand is NaN, lane i of the mask returned by
\* vector_equal, vector_less_than, vector_less_equal, vector_greater_than and
\* vector_greater_equal is all-zeros, on the SSE2 path and on the scalar
\* fallback alike; and every vector_all_* reducer whose selected lanes
\* include a NaN lane returns false.
C19_NaNComparesFalse ==
    /\ op \in MaskComparisons =>
           \A i \in Lanes : HasNaN(input[i], rhs[i]) =>
               /\ result[i] = AllZeros
               /\ CallMask(op, "sse2", input, rhs)[i] = AllZeros
               /\ CallMask(op, "scalar", input, rhs)[i] = AllZeros
    /\ \A c \in Comparisons, n \in LaneSuffixes :
           /\ op = "all_" \o c \o n
           /\ \E i \in SelectedLanes(n) : HasNaN(input[i], rhs[i])
           => flag = FALSE

\* vector_equal of a NaN lane with the very same NaN
C19_Witness ==
    /\ op = "equal"
    /\ \E i \in Lanes : IsNaN(input[i]) /\ rhs[i] = input[i] /\ result[i] = AllZeros
    /\ \E i \in Lanes : result[i] = AllOnes

\* ------------------------------------------------------------------------
\* min, max, clamp
\* ------------------------------------------------------------------------

\* C14: vector_clamp(input, lo, hi) is vector_min(hi, vector_max(lo, input))
\* in every lane; in a lane where none of input, lo, hi is a NaN, lo <= hi
\* puts the result in [lo, hi] and leaves an input that is already in
\* [lo, hi] as it is, and lo > hi makes the result hi whatever the input.
C14_ClampIsMinOfMax ==
    op = "clamp" =>
        /\ result = vector_min(backend, third, vector_max(backend, rhs, input))
        /\ \A i \in Lanes :
               LET x == input[i]
                   lo == rhs[i]
                   hi == third[i]
               IN  ~IsNaN(x) /\ ~IsNaN(lo) /\ ~IsNaN(hi) =>
                       /\ FpLe(lo, hi) => FpLe(lo, result[i]) /\ FpLe(result[i], hi)
                       /\ FpLe(lo, hi) /\ FpLe(lo, x) /\ FpLe(x, hi) => result[i] = x
                       /\ FpGt(lo, hi) => result[i] = hi

\* one call with a lane clamped up to lo, a lane left alone strictly inside
\* and a lane with lo > hi
C14_Witness ==
    /\ op = "clamp"
    /\ \E i \in Lanes : FpLt(input[i], rhs[i]) /\ FpLt(rhs[i], third[i]) /\ result[i] = rhs[i]
    /\ \E i \in Lanes : FpLt(rhs[i], input[i]) /\ FpLt(input[i], third[i]) /\ result[i] = input[i]
    /\ \E i \in Lanes : FpGt(rhs[i], third[i]) /\ result[i] = third[i]

\* C18: in a lane where exactly one operand of vector_min or vector_max is a
\* NaN, the result is the other, non-NaN, operand, whichever argument the NaN
\* is in.
C18_MinMaxReturnNonNaNOperand ==
    op \in {"max", "min"} =>
        \A i \in Lanes :
            /\ IsNaN(input[i]) /\ ~IsNaN(rhs[i]) => result[i] = rhs[i]
            /\ ~IsNaN(input[i]) /\ IsNaN(rhs[i]) => result[i] = input[i]

\* ------------------------------------------------------------------------
\* Arithmetic
\* ------------------------------------------------------------------------

\* C15: vector_lerp(start, end, alpha) is (end * alpha) + (start - start * alpha)
\* in every lane, each operation rounded on its own; in a lane where start
\* and end are finite, alpha = 0.0 gives a result that compares equal to start
\* and alpha = 1.0 a result that compares equal to end.
C15_LerpBoundary ==
    op = "lerp" =>
        \A i \in Lanes :
            LET start == input[i]
                end == rhs[i]
            IN  /\ result[i] = AddPd(MulPd(end, scalar), SubPd(start, MulPd(start, scalar)))
                /\ IsFinite(start) /\ IsFinite(end) =>
                       /\ scalar = PosZero => FpEq(result[i], start)
                       /\ scalar = One => FpEq(result[i], end)

\* alpha = 1.0 with finite start and end that differ in every lane, one of
\* them beyond 2^52
C15_Witness ==
    /\ op = "lerp"
    /\ scalar = One
    /\ \A i \in Lanes : IsFinite(input[i]) /\ IsFinite(rhs[i]) /\ ~FpEq(input[i], rhs[i])
    /\ \E i \in Lanes : AtLeastLimit(rhs[i])
    /\ result = rhs

\* the arithmetic operation vector_<a> called in build configuration b on
\* the operands the action of that name passes
CallArithmetic(a, b, v0, v1, v2, d) ==
    CASE a = "add" -> vector_add(b, v0, v1)
      [] a = "sub" -> vector_sub(b, v0, v1)
      [] a = "mul" -> vector_mul(b, v0, v1)
      [] a = "mul_d" -> vector_mul_d(b, v0, d)
      [] a = "div" -> vector_div(b, v0, v1)
      [] a = "neg" -> vector_neg(b, v0)
      [] a = "reciprocal" -> vector_reciprocal(b, v0)
      [] a = "mul_add" -> vector_mul_add(b, v0, v1, v2)
      [] a = "mul_add_d" -> vector_mul_add_d(b, v0, d, v1)
      [] a = "neg_mul_sub" -> vector_neg_mul_sub(b, v0, v1, v2)
      [] a = "neg_mul_sub_d" -> vector_neg_mul_sub_d(b, v0, d, v1)
      [] a = "lerp" -> vector_lerp(b, v0, v1, d)

\* how many vector operands the operation takes
VectorOperands(a) ==
    IF a \in {"neg", "reciprocal", "mul_d"} THEN 1
    ELSE IF a \in {"mul_add", "neg_mul_sub"} THEN 3
    ELSE 2

\* lane i of a vector operand of the call is a NaN
NaNOperand(i) ==
    \/ IsNaN(input[i])
    \/ VectorOperands(op) >= 2 /\ IsNaN(rhs[i])
    \/ VectorOperands(op) >= 3 /\ IsNaN(third[i])

\* C17: for vector_add, vector_sub, vector_mul, vector_div, vector_mul_add,
\* vector_neg_mul_sub, vector_neg, vector_reciprocal and vector_lerp, a NaN
\* in lane i of any vector operand gives a NaN in lane i of the result, and
\* every other lane is what it is when lane i of the operands holds 1.0.
C17_NaNStaysInItsLane ==
    op \in Arithmetic =>
        \A i \in Lanes : NaNOperand(i) =>
            /\ IsNaN(result[i])
            /\ LET clean == CallArithmetic(op, backend, WithLane(input, i, One),
                                           WithLane(rhs, i, One), WithLane(third, i, One),
                                           scalar)
               IN  \A j \in Lanes \ {i} : result[j] = clean[j]

\* vector_mul_add with a NaN in one lane of the third operand only
C17_Witness ==
    /\ op = "mul_add"
    /\ \E i \in Lanes : /\ IsNaN(third[i]) /\ ~IsNaN(input[i]) /\ ~IsNaN(rhs[i])
                        /\ IsNaN(result[i])
    /\ \E j \in Lanes : ~IsNaN(result[j])

\* ------------------------------------------------------------------------
\* Normalization
\* ------------------------------------------------------------------------

\* x*x + y*y + z*z, each operation rounded
SquaredLength3(v) == AddPd(AddPd(MulPd(v[1], v[1]), MulPd(v[2], v[2])), MulPd(v[3], v[3]))

LoadCount(l) ==
    CASE l = "load1" -> 1
      [] l \in {"load2", "load2_float2d"} -> 2
      [] l \in {"load3", "load3_float3d"} -> 3
      [] l \in {"load", "load_float4d"} -> 4

\* C20: vector_load1, vector_load2 and vector_load3, from a double array or
\* from a float2d / float3d, put the first 1, 2 or 3 source values into lanes
\* x, xy or xyz in order, bit for bit, and +0.0 into every other lane;
\* vector_load puts four values into x, y, z, w in order.
C20_LoadsZeroFill ==
    op \in Loads =>
        \A i \in Lanes : result[i] = IF i <= LoadCount(op) THEN input[i] ELSE PosZero

\* vector_load3 from an array whose fourth element is not zero
C20_Witness ==
    /\ op = "load3"
    /\ ~IsZero(input[4])
    /\ result[4] = PosZero
    /\ \A i \in 1 .. 3 : result[i] = input[i] /\ ~IsZero(input[i])

\* ------------------------------------------------------------------------
\* Stores
\* ------------------------------------------------------------------------

\* how many lanes the store writes
StoreCount(st) ==
    CASE st \in {"store1", "store1_bytes"} -> 1
      [] st \in {"store2", "store2_bytes", "store2_float2d"} -> 2
      [] st \in {"store3", "store3_bytes", "store3_float3d"} -> 3

\* the double that eight bytes of memory hold
DoubleOfBytes(m) ==
    Dbl(m[8] \div 128, m[7] \div 16 + (m[8] % 128) * 16,
        m[4] \div 4 + m[5] * 64 + m[6] * 16384 + (m[7] % 16) * 4194304,
        m[1] + m[2] * 256 + m[3] * 65536 + (m[4] % 4) * 16777216)

\* element i of a byte buffer read as doubles
ElementOfBytes(m, i) == DoubleOfBytes(SubSeq(m, sizeof_double * (i - 1) + 1, sizeof_double * i))

\* C21: vector_store1, vector_store2 and vector_store3 write lanes x, xy or
\* xyz to the first 1, 2 or 3 elements of the output (8, 16 or 24 bytes of a
\* byte buffer, the members x, y (, z) of a float2d / float3d) and leave
\* every element or byte after that as it was; the written elements are the
\* lanes of the input.
C21_StoresWriteOnlyTheirLanes ==
    /\ op \in ArrayStores =>
           /\ Len(result) = Len(rhs)
           /\ \A i \in Lanes : result[i] = IF i <= StoreCount(op) THEN input[i] ELSE rhs[i]
    /\ op \in ByteStores =>
           /\ Len(result) = Len(ObjectBytes(rhs))
           /\ \A i \in Lanes : i <= StoreCount(op) => ElementOfBytes(result, i) = input[i]
           /\ \A k \in 1 .. Len(result) :
                  k > sizeof_double * StoreCount(op) => result[k] = ObjectBytes(rhs)[k]
    /\ op = "store2_float2d" => result = float2d(input[1], input[2])
    /\ op = "store3_float3d" => result = float3d(input[1], input[2], input[3])

\* two lanes stored into a byte buffer whose four elements all differed from
\* the lanes of the input
C21_Witness ==
    /\ op = "store2_bytes"
    /\ \A i \in Lanes : ElementOfBytes(ObjectBytes(rhs), i) # input[i]
    /\ ElementOfBytes(result, 1) = input[1]
    /\ ElementOfBytes(result, 2) = input[2]
    /\ ElementOfBytes(result, 3) = rhs[3]
    /\ ElementOfBytes(result, 4) = rhs[4]

\* ------------------------------------------------------------------------
\* Lane setters and getters
\* ------------------------------------------------------------------------

\* the lane a setter replaces
SetLane(st) ==
    CASE st = "set_x" -> 1 [] st = "set_y" -> 2 [] st = "set_z" -> 3 [] st = "set_w" -> 4

\* vector_get_x / y / z / w by the lane number
GetLane(b, v, i) ==
    CASE i = 1 -> vector_get_x(b, v)
      [] i = 2 -> vector_get_y(b, v)
      [] i = 3 -> vector_get_z(b, v)
      [] i = 4 -> vector_get_w(b, v)

\* C22: vector_set_x / y / z / w (input, v) returns a vector whose lane x / y /
\* z / w is v and whose three other lanes are those of input, bit for bit;
\* vector_get_x / y / z / w of the result is v.
C22_SetReplacesOneLane ==
    op \in LaneSetters =>
        /\ \A i \in Lanes : result[i] = IF i = SetLane(op) THEN scalar ELSE input[i]
        /\ GetLane(backend, result, SetLane(op)) = scalar
        /\ \A i \in Lanes : i # SetLane(op) => GetLane(backend, result, i) = input[i]

\* the w lane set to a value no lane of the input holds
C22_Witness ==
    /\ op = "set_w"
    /\ RTM_SSE2_INTRINSICS(backend)
    /\ \A i \in Lanes : input[i] # scalar
    /\ result = <<input[1], input[2], input[3], scalar>>

\* ------------------------------------------------------------------------
\* Sign, sign copy and absolute value
\* ------------------------------------------------------------------------

\* C23: vector_sign returns, per lane, +1.0 where input >= 0 and -1.0
\* otherwise; a zero lane of either sign gives +1.0, and every result lane is
\* exactly +1.0 or -1.0 whatever the input.
C23_SignIsPlusOrMinusOne ==
    op = "sign" =>
        \A i \in Lanes :
            /\ result[i] = IF FpGe(input[i], PosZero) THEN One ELSE MinusOne
            /\ IsZero(input[i]) => result[i] = One
            /\ result[i] \in {One, MinusOne}

\* a negative zero lane next to a negative lane
C23_Witness ==
    /\ op = "sign"
    /\ \E i \in Lanes : input[i] = NegZero /\ result[i] = One
    /\ \E i \in Lanes : FpLt(input[i], PosZero) /\ result[i] = MinusOne

\* the absolute value as a bit pattern: the sign bit cleared
Magnitude(d) == [d EXCEPT !.s = 0]

\* C24: vector_copy_sign(input, control) returns, per lane, the magnitude bits
\* of input under the sign bit of control, also when control is a zero of
\* either sign or input is zero; vector_copy_sign(v, v) is v; the SSE2 bit
\* mask path and the scalar copysign path agree.
C24_CopySignIsBitLevel ==
    op = "copy_sign" =>
        /\ \A i \in Lanes :
               /\ Magnitude(result[i]) = Magnitude(input[i])
               /\ result[i].s = rhs[i].s
        /\ vector_copy_sign(backend, input, input) = input
        /\ vector_copy_sign("sse2", input, rhs) = vector_copy_sign("scalar", input, rhs)

\* a negative zero gives its sign to a positive lane, a positive lane gives
\* its sign to a negative one
C24_Witness ==
    /\ op = "copy_sign"
    /\ \E i \in Lanes : rhs[i] = NegZero /\ FpGt(input[i], PosZero) /\ FpLt(result[i], PosZero)
    /\ \E i \in Lanes : rhs[i].s = 0 /\ input[i].s = 1 /\ result[i].s = 0

\* ------------------------------------------------------------------------
\* Tangent
\* ------------------------------------------------------------------------

\* C25: vector_tan returns, in every lane where the cosine of the angle
\* equals zero, an infinity with the sign of the angle in that lane, and in
\* every other lane the quotient sine / cosine; a pole in one lane leaves the
\* other lanes as they are.
C25_TanSignedInfinityAtPoles ==
    op = "tan" =>
        \A i \in Lanes :
            result[i] = IF FpEq(trig.cos[i], PosZero)
                        THEN Dbl(input[i].s, ExpMax, 0, 0)
                        ELSE DivPd(trig.sin[i], trig.cos[i])

\* a pole in a lane of negative angle next to a lane with a finite quotient
C25_Witness ==
    /\ op = "tan"
    /\ \E i \in Lanes : IsZero(trig.cos[i]) /\ input[i].s = 1 /\ result[i] = NegInf
    /\ \E i \in Lanes : ~IsZero(trig.cos[i]) /\ IsFinite(result[i]) /\ ~IsZero(result[i])

\* ------------------------------------------------------------------------
\* Near equality
\* ------------------------------------------------------------------------

\* the lanes among the first n where abs(a - b) <= threshold
NearLanes(a, b, threshold, n) ==
    {i \in 1 .. n : FpLe(Magnitude(SubPd(a[i], b[i])), threshold)}

\* the number of lanes a near_equal reducer looks at
NearCount == [o \in NearReducers |->
                 IF o \in {"all_near_equal2", "any_near_equal2"} THEN 2
                 ELSE IF o \in {"all_near_equal3", "any_near_equal3"} THEN 3 ELSE 4]

IsAllReducer(o) == o \in {"all_near_equal", "all_near_equal2", "all_near_equal3"}

\* the lanes among the first n where abs(input - rhs) equals the threshold
AtThreshold(n) == {i \in 1 .. n : FpEq(Magnitude(SubPd(input[i], rhs[i])), scalar)}

\* the call of op with the two vectors exchanged
NearSwapped ==
    CASE op = "all_near_equal" -> vector_all_near_equal(backend, rhs, input, scalar)
      [] op = "all_near_equal2" -> vector_all_near_equal2(backend, rhs, input, scalar)
      [] op = "all_near_equal3" -> vector_all_near_equal3(backend, rhs, input, scalar)
      [] op = "any_near_equal" -> vector_any_near_equal(backend, rhs, input, scalar)
      [] op = "any_near_equal2" -> vector_any_near_equal2(backend, rhs, input, scalar)
      [] op = "any_near_equal3" -> vector_any_near_equal3(backend, rhs, input, scalar)

\* C26: the vector_all_near_equal reducers return true exactly when
\* abs(lhs - rhs) <= threshold holds in all of the 4, first 2 or first 3 lanes,
\* the vector_any_near_equal reducers exactly when it holds in at least one of
\* them; exchanging lhs and rhs gives the same result, and a difference equal
\* to the threshold counts as near equal.
C26_NearEqualReduces ==
    op \in NearReducers =>
        LET near == NearLanes(input, rhs, scalar, NearCount[op])
        IN  /\ flag = IF IsAllReducer(op) THEN near = 1 .. NearCount[op] ELSE near # {}
            /\ flag = NearSwapped
            /\ (IF IsAllReducer(op) THEN AtThreshold(NearCount[op]) = 1 .. NearCount[op]
                                     ELSE AtThreshold(NearCount[op]) # {}) => flag

\* all of x, y, z near, one of them at a distance equal to a threshold that is
\* not zero, with a w lane that is not near
C26_Witness ==
    /\ op = "all_near_equal3"
    /\ flag
    /\ ~IsZero(scalar)
    /\ AtThreshold(3) # {}
    /\ NearLanes(input, rhs, scalar, 4) = 1 .. 3

\* ------------------------------------------------------------------------
\* The w lane and the operations on three lanes
\* ------------------------------------------------------------------------

\* other values of a w lane: the largest number, an infinity, a NaN
OtherW == {Dbl(0, ExpMax - 1, Two26 - 1, Two26 - 1), PosInf, DefaultNaN}

\* v with another w lane
WithW(v, w) == <<v[1], v[2], v[3], w>>

\* the double the operation o returns for the operands a and b
Length3Of(o, a, b) ==
    CASE o = "dot3" -> vector_dot3(backend, a, b)
      [] o = "length_squared3" -> vector_length_squared3(backend, a)
      [] o = "length3" -> vector_length3(backend, a)
      [] o = "length_reciprocal3" -> vector_length_reciprocal3(backend, a)
      [] o = "distance3" -> vector_distance3(backend, a, b)
      [] o = "normalize3_unit" -> normalize3_scale(backend, a)

\* C27: vector_dot3, vector_length_squared3, vector_length3,
\* vector_length_reciprocal3, vector_distance3 and the scale factor of
\* vector_normalize3 depend only on the lanes x, y, z: operands that differ
\* only in their w lanes give the same double, in every build.
C27_ThreeLaneOperationsIgnoreW ==
    op \in Lengths3 \cup {"normalize3_unit"} =>
        \A w1 \in OtherW :
            \A w2 \in IF op \in {"dot3", "distance3"} THEN {NegZero, PosInf} ELSE {rhs[4]} :
                Length3Of(op, WithW(input, w1), WithW(rhs, w2)) = value

\* a dot product of a number, with w lanes whose product is not a number
C27_Witness ==
    /\ op = "dot3"
    /\ backend = "sse2"
    /\ IsFinite(value) /\ ~IsZero(value)
    /\ IsNaN(MulPd(input[4], rhs[4]))

\* ------------------------------------------------------------------------
\* Mixing
\* ------------------------------------------------------------------------

\* the lane of a (symbols x, y, z, w) or of b (symbols a, b, c, d) that the
\* symbol ci names
MixedLane(ci, a, b) == IF ci < 4 THEN a[(ci % 4) + 1] ELSE b[(ci % 4) + 1]

\* the lane vector_dup_x / y / z / w replicates
DupLane == [o \in Dups |-> CASE o = "dup_x" -> 1 [] o = "dup_y" -> 2
                             [] o = "dup_z" -> 3 [] o = "dup_w" -> 4]

\* C28: lane i of vector_mix<c0, c1, c2, c3>(a, b) is lane (ci mod 4) of a
\* when ci is one of x, y, z, w and lane (ci mod 4) of b when ci is one of
\* a, b, c, d; vector_dup_x / y / z / w(v) hold the x / y / z / w lane of v in
\* all four lanes, and mix<x, y, z, w>(a, b) is a.
C28_MixSelectsLanes ==
    /\ op = "mix" =>
           /\ \A i \in Lanes : result[i] = MixedLane(components[i], input, rhs)
           /\ components = <<mix4.x, mix4.y, mix4.z, mix4.w>> => result = input
    /\ op \in Dups => result = vector_set(input[DupLane[op]])

\* a mix of lanes of both inputs, each lane taken differing from the lane of
\* the other input and from the lane at its own position
C28_Witness ==
    /\ op = "mix"
    /\ \E i \in Lanes : components[i] < 4 /\ components[i] % 4 # i - 1
                        /\ result[i] # rhs[(components[i] % 4) + 1]
                        /\ result[i] # input[i]
    /\ \E i \in Lanes : components[i] >= 4 /\ result[i] # input[(components[i] % 4) + 1]

\* ------------------------------------------------------------------------
\* Absolute value
\* ------------------------------------------------------------------------

\* the same double, NaNs taken as one value
SameValue(a, b) == IF IsNaN(a) \/ IsNaN(b) THEN IsNaN(a) /\ IsNaN(b) ELSE a = b

\* C29: vector_abs returns, for every lane that is not a NaN, the magnitude of
\* the input with a clear sign bit (+0.0 for a lane of -0.0), and the SSE2
\* path max(0 - input, input) gives the same lane value as the scalar
\* fallback scalar_abs(input) for every input.
C29_AbsIsMagnitude ==
    op = "abs" =>
        /\ \A i \in Lanes : ~IsNaN(input[i]) => result[i] = Magnitude(input[i])
        /\ \A i \in Lanes : SameValue(vector_abs("sse2", input)[i], vector_abs("scalar", input)[i])

\* vector_abs of numbers that are not zero is the magnitude in every build
C29_NonZeroMagnitude ==
    op = "abs" =>
        \A i \in Lanes : ~IsNaN(input[i]) /\ ~IsZero(input[i]) => result[i] = Magnitude(input[i])

\* the SSE2 path on a lane of -0.0 returns -0.0
C29_NegativeZeroKept ==
    /\ op = "abs"
    /\ RTM_SSE2_INTRINSICS(backend)
    /\ \E i \in Lanes : input[i] = NegZero /\ result[i] = NegZero

\* ------------------------------------------------------------------------
\* Normalization of a vector without a length
\* ------------------------------------------------------------------------

\* C30: when the squared 3D length of input is a NaN, the test
\* len_sq >= threshold of vector_normalize3(input, fallback, threshold) is
\* false and fallback is returned unchanged, so no NaN or infinity of the
\* normalization is returned; with a squared length of zero and a threshold
\* above zero fallback is returned too.
C30_NoLengthGivesFallback ==
    op = "normalize3" =>
        LET len_sq == vector_length_squared3(backend, input)
        IN  /\ IsNaN(len_sq) => result = rhs
            /\ IsZero(len_sq) /\ FpGt(scalar, PosZero) => result = rhs

\* a NaN squared length and a fallback that is not the input, with a number
\* in one of the lanes the normalization would have made a NaN
C30_Witness ==
    /\ op = "normalize3"
    /\ IsNaN(vector_length_squared3(backend, input))
    /\ result = rhs
    /\ rhs # input
    /\ \E i \in 1 .. 3 : IsFinite(result[i])

\* a squared length of zero under a threshold above zero
C30_ZeroLength ==
    /\ op = "normalize3"
    /\ IsZero(vector_length_squared3(backend, input))
    /\ FpGt(scalar, PosZero)
    /\ result = rhs

====
